---- MODULE Spec2Model ----
(***************************************************************************)
(* DocuGenius: the pagination engine of the editor component, in its two   *)
(* versions (src/components/Editor.tsx, balancePages, and                  *)
(* src/unnamed/part_000, balanceFromPage), together with the host state    *)
(* (App: content) the engine reads and writes.                             *)
(*                                                                         *)
(* The DOM is a sequence of pages, a page a sequence of child nodes, a     *)
(* node a pair <<identity, kind>>.  Markup (an HTML string) is the         *)
(* sequence of the kinds of the nodes it serialises: two strings are equal *)
(* iff the sequences are.  Heights are in layout units; clientHeight of a  *)
(* page is BoxHeight.                                                      *)
(*                                                                         *)
(* React state updates (setPageCount, setPages, setContent) are queued and *)
(* applied by a later Render step; requestAnimationFrame and setTimeout    *)
(* callbacks are separate steps.  The platform orders steps of different   *)
(* task sources freely, timers among themselves first-in first-out.        *)
(*                                                                         *)
(* The DOCX service (src/services/docxService.ts, saveToDocx and           *)
(* parseDocxFile) and the host's file actions (src/unnamed/part_003,       *)
(* handleFileAction) are modelled on markup held as a sequence of tokens   *)
(* and on a package held as a record of its parts; lengths are in twips    *)
(* and in tenths of a millimetre.  The same service is also modelled on    *)
(* node trees (CodecSpec), where containers and nesting are kept.          *)
(*                                                                         *)
(* EditSpec is the engine under single edits of an unhurried user;         *)
(* SetupSpec is the Page Setup dialog (PageSetupModal, handlePageNumChange)*)
(* with the header and footer of a page being edited.                      *)
(***************************************************************************)
EXTENDS Integers, Sequences, FiniteSets, TLC

\* ---------------------------------------------------------------- bounds
MaxPages == 4
MaxBlocks == 4
MaxEdits == 3
BoxHeight == 4
MaxImports == 2
MaxTwips == 2000
MaxMm == 400

\* The tolerance of the overflow test: scrollHeight > clientHeight + 1.
Epsilon == 1

\* ---------------------------------------------------------------- nodes
EditorTsx == "Editor.tsx"
Part000 == "part_000"
Engines == {EditorTsx, Part000}

\* What a child node of a page can be: a paragraph with text, a paragraph
\* that holds one space, the empty paragraph <p><br></p>, a bare <br>, an
\* image taller than a page.
Kinds == {"p", "ws", "e", "br", "img"}

NodeHeight(k) ==
  CASE k = "p" -> (BoxHeight + 1) \div 2
    [] k = "ws" -> 1
    [] k = "e" -> 1
    [] k = "br" -> 1
    [] k = "img" -> BoxHeight + Epsilon + 1

\* Number of text characters of a node, and of those that are not white space.
TextLen(k) == IF k \in {"p", "ws"} THEN 1 ELSE 0
TrimLen(k) == IF k = "p" THEN 1 ELSE 0

None == <<"-">>
PLACEHOLDER == <<"e">>
DEFAULT_CONTENT == <<"p">>
Docs == { <<"p", "p", "p">>, <<"img">>, <<"p", "e">> }

Max(a, b) == IF a > b THEN a ELSE b

RECURSIVE Flat(_)
Flat(d) == IF d = <<>> THEN <<>> ELSE Head(d) \o Flat(Tail(d))

Markup(nodes) == [i \in 1..Len(nodes) |-> nodes[i][2]]

\* getAllContent / pages.map(p => p.innerHTML).join('')
getAllContent(d) == Markup(Flat(d))

Ids(d) == {Flat(d)[i][1] : i \in 1..Len(Flat(d))}

FreshId(used) == CHOOSE n \in 1..(Cardinality(used) + 1) :
                    n \notin used /\ \A m \in 1..(n - 1) : m \in used

\* Setting innerHTML: the nodes parsed from markup m, with identities not in used.
RECURSIVE Parse(_, _)
Parse(m, used) ==
  IF m = <<>> THEN <<>>
  ELSE LET n == FreshId(used)
       IN <<<<n, Head(m)>>>> \o Parse(Tail(m), used \cup {n})

RECURSIVE ContentHeight(_)
ContentHeight(page) ==
  IF page = <<>> THEN 0 ELSE NodeHeight(Head(page)[2]) + ContentHeight(Tail(page))

clientHeight == BoxHeight
scrollHeight(page) == Max(clientHeight, ContentHeight(page))

Overflows(page) == scrollHeight(page) > clientHeight + Epsilon

RECURSIVE TextChars(_)
TextChars(nodes) ==
  IF nodes = <<>> THEN 0 ELSE TextLen(Head(nodes)[2]) + TextChars(Tail(nodes))

\* textContent.trim() is not empty.
HasText(nodes) == \E j \in 1..Len(nodes) : TrimLen(nodes[j][2]) > 0

Front(s) == SubSeq(s, 1, Len(s) - 1)
Last(s) == s[Len(s)]

\* nextPage.insertBefore(page.lastChild, nextPage.firstChild)
PushLast(d, i) ==
  [d EXCEPT ![i] = Front(d[i]), ![i + 1] = <<Last(d[i])>> \o d[i + 1]]

\* page.appendChild(nextPage.firstChild)
PullFirst(d, i) ==
  [d EXCEPT ![i] = Append(d[i], Head(d[i + 1])), ![i + 1] = Tail(d[i + 1])]

\* ------------------------------------------- Editor.tsx: balancePages
\* ForwardPass that asks for no page when the last page overflows.
RECURSIVE ForwardPassNoCreate(_, _, _)
ForwardPassNoCreate(d, i, didChange) ==
  IF i > Len(d) THEN [pages |-> d, didChange |-> didChange, halt |-> FALSE]
  ELSE IF Overflows(d[i]) THEN
         IF i = Len(d) THEN [pages |-> d, didChange |-> didChange, halt |-> FALSE]
         ELSE IF d[i] = <<>> THEN ForwardPassNoCreate(d, i + 1, didChange)
         ELSE ForwardPassNoCreate(PushLast(d, i), i, TRUE)
  ELSE ForwardPassNoCreate(d, i + 1, didChange)

RECURSIVE ForwardPass(_, _, _)
ForwardPass(d, i, didChange) ==
  IF i > Len(d) THEN [pages |-> d, didChange |-> didChange, halt |-> FALSE]
  ELSE IF Overflows(d[i]) THEN
         IF i = Len(d) THEN [pages |-> d, didChange |-> didChange, halt |-> TRUE]
         ELSE IF d[i] = <<>> THEN ForwardPass(d, i + 1, didChange)
         ELSE ForwardPass(PushLast(d, i), i, TRUE)
  ELSE ForwardPass(d, i + 1, didChange)

\* BackwardPass without the put-back: a pulled node stays even if the page
\* then overflows.
RECURSIVE BackwardPassNoPutBack(_, _, _)
BackwardPassNoPutBack(d, i, didChange) ==
  IF i >= Len(d) THEN [pages |-> d, didChange |-> didChange]
  ELSE IF d[i + 1] # <<>> THEN BackwardPassNoPutBack(PullFirst(d, i), i, TRUE)
  ELSE BackwardPassNoPutBack(d, i + 1, didChange)

\* BackwardPass with the pulled node put back at the end of the next page
\* (appendChild in the place of insertBefore).
RECURSIVE BackwardPassPutBackLast(_, _, _)
BackwardPassPutBackLast(d, i, didChange) ==
  IF i >= Len(d) THEN [pages |-> d, didChange |-> didChange]
  ELSE IF d[i + 1] # <<>> THEN
         LET t == PullFirst(d, i)
         IN IF Overflows(t[i])
            THEN BackwardPassPutBackLast(
                   [t EXCEPT ![i] = Front(t[i]), ![i + 1] = Append(t[i + 1], Last(t[i]))],
                   i + 1, didChange)
            ELSE BackwardPassPutBackLast(t, i, TRUE)
  ELSE BackwardPassPutBackLast(d, i + 1, didChange)

\* page.appendChild(node); when the page then overflows,
\* nextPage.insertBefore(node, nextPage.firstChild) and break.
RECURSIVE BackwardPass(_, _, _)
BackwardPass(d, i, didChange) ==
  IF i >= Len(d) THEN [pages |-> d, didChange |-> didChange]
  ELSE IF d[i + 1] # <<>> THEN
         LET t == PullFirst(d, i)
         IN IF Overflows(t[i]) THEN BackwardPass(PushLast(t, i), i + 1, didChange)
            ELSE BackwardPass(t, i, TRUE)
  ELSE BackwardPass(d, i + 1, didChange)

\* The trailing page is removed: no child, or a single <br>.
RemoveEmptyLast(d) ==
  /\ Len(d) > 1
  /\ \/ Last(d) = <<>>
     \/ Len(Last(d)) = 1 /\ Markup(Last(d)) = <<"br">>

\* balancePages without the didChange guard on the emission.
balancePagesUnguarded(d, lastEmit) ==
  LET f == ForwardPass(d, 1, FALSE)
  IN IF f.halt
     THEN [pages |-> f.pages, req |-> "create", emit |-> None]
     ELSE LET b == BackwardPass(f.pages, 1, f.didChange)
              fullHtml == getAllContent(b.pages)
          IN IF RemoveEmptyLast(b.pages)
             THEN [pages |-> b.pages, req |-> "destroy", emit |-> None]
             ELSE [pages |-> b.pages, req |-> "none",
                   emit |-> IF fullHtml # lastEmit THEN fullHtml ELSE None]

\* One run of the animation-frame callback of balancePages on DOM d.
\* req: the page-count update it queues; emit: the argument of onContentChange.
balancePages(d, lastEmit) ==
  LET f == ForwardPass(d, 1, FALSE)
  IN IF f.halt
     THEN [pages |-> f.pages, req |-> "create", emit |-> None]
     ELSE LET b == BackwardPass(f.pages, 1, f.didChange)
              fullHtml == getAllContent(b.pages)
          IN IF RemoveEmptyLast(b.pages)
             THEN [pages |-> b.pages, req |-> "destroy", emit |-> None]
             ELSE [pages |-> b.pages, req |-> "none",
                   emit |-> IF b.didChange /\ fullHtml # lastEmit THEN fullHtml ELSE None]

\* ------------------------------------------- part_000: balanceFromPage
RECURSIVE moveOverflowContent(_, _, _)
moveOverflowContent(d, i, moved) ==
  IF Overflows(d[i]) /\ d[i] # <<>>
  THEN moveOverflowContent(PushLast(d, i), i, TRUE)
  ELSE [pages |-> d, moved |-> moved]

RECURSIVE ForwardFrom(_, _, _)
ForwardFrom(d, i, changesMade) ==
  IF i > Len(d) THEN [pages |-> d, changesMade |-> changesMade, halt |-> FALSE]
  ELSE IF Overflows(d[i]) THEN
         IF i = Len(d) THEN [pages |-> d, changesMade |-> changesMade, halt |-> TRUE]
         ELSE LET m == moveOverflowContent(d, i, FALSE)
              IN ForwardFrom(m.pages, i + 1, changesMade \/ m.moved)
  ELSE ForwardFrom(d, i + 1, changesMade)

\* Pulls at most one node per page and per invocation.
RECURSIVE PullBack(_, _, _)
PullBack(d, i, changesMade) ==
  IF i >= Len(d) THEN [pages |-> d, changesMade |-> changesMade]
  ELSE IF d[i + 1] # <<>> THEN
         LET t == PullFirst(d, i)
         IN IF scrollHeight(t[i]) > clientHeight
            THEN PullBack(PushLast(t, i), i + 1, changesMade)
            ELSE PullBack(t, i + 1, TRUE)
  ELSE PullBack(d, i + 1, changesMade)

\* !lastPage.textContent?.trim() && !lastPage.querySelector('img, table')
EffectivelyEmpty(page) ==
  /\ ~HasText(page)
  /\ \A j \in 1..Len(page) : page[j][2] # "img"

CleanupLast(d, focused) ==
  /\ Len(d) > 1
  /\ EffectivelyEmpty(Last(d))
  /\ scrollHeight(d[Len(d) - 1]) <= clientHeight
  /\ focused # Len(d)

\* One call of balanceFromPage(startIndex) on DOM d; focused: the page that
\* holds document.activeElement (0: none).
balanceFromPage(d, startIndex, focused) ==
  LET f == ForwardFrom(d, startIndex, FALSE)
  IN IF f.halt
     THEN [pages |-> f.pages, req |-> "create", emit |-> None]
     ELSE LET b == PullBack(f.pages, 1, f.changesMade)
              cleanup == CleanupLast(b.pages, focused)
              changesMade == b.changesMade \/ cleanup
          IN [pages |-> b.pages,
              req |-> IF cleanup THEN "destroy" ELSE "none",
              emit |-> IF changesMade THEN getAllContent(b.pages) ELSE None]

\* ================================================================ DOCX
\* src/services/docxService.ts and the host's file actions.  Here markup is
\* spelled token by token: a start tag, an end tag, a run of characters as
\* they stand in the string, an <img>, a page-number span.  Two markup strings
\* are equal iff their token sequences are.  Lengths in millimetres are held
\* in tenths of a millimetre (25.4 mm is 254).

Open(tag, align) == [t |-> "open", tag |-> tag, align |-> align, c |-> "", src |-> ""]
Close(tag) == [t |-> "close", tag |-> tag, align |-> "", c |-> "", src |-> ""]
Chars(c) == [t |-> "chars", tag |-> "", align |-> "", c |-> c, src |-> ""]
ImgTag(src) == [t |-> "img", tag |-> "", align |-> "", c |-> "", src |-> src]
\* <span class="page-number"><span>#</span></span>
PageNumberSpan == [t |-> "page-number", tag |-> "span", align |-> "", c |-> "#", src |-> ""]

ParagraphTags == {"p", "li", "h1", "h2"}
InlineTags == {"b", "i", "u"}

\* The src attribute of an <img>.
PngDataUri == "data:image/png;base64,iVBOR"
NoPayloadUri == "data:image/png"
RemoteUri == "https://example.org/a.png"
\* What FileReader.readAsDataURL gives for a blob without a type.
OctetUri == "data:application/octet-stream;base64,iVBOR"
EmptyOctetUri == "data:application/octet-stream;base64,"

\* src.startsWith('data:image')
StartsWithDataImage(src) == src \in {PngDataUri, NoPayloadUri}
\* src.split(',')[1]; "" stands for undefined (no comma in src).
Payload(src) == IF src \in {PngDataUri, OctetUri} THEN "iVBOR" ELSE ""
\* parts[0].match(/:(.*?);/) finds a media type that includes 'png'.
MimeIsPng(src) == src = PngDataUri

\* The character data of a text node, and how the three syntaxes spell it.
\* HtmlEncode is the serialisation innerHTML gives, HtmlDecode what the HTML
\* parser reads back from a run of characters.
HtmlEncode(text) ==
  CASE text = "<b>" -> "&lt;b&gt;"
    [] text = "&lt;" -> "&amp;lt;"
    [] text = "<" -> "&lt;"
    [] OTHER -> text

HtmlDecode(c) ==
  CASE c = "&lt;b&gt;" -> "<b>"
    [] c = "&amp;lt;" -> "&lt;"
    [] c = "&lt;" -> "<"
    [] OTHER -> c

\* text.replace(/&/g, '&amp;').replace(/</g, '&lt;')
XmlEscape(text) ==
  CASE text = "<b>" -> "&lt;b>"
    [] text = "&lt;" -> "&amp;lt;"
    [] text = "<" -> "&lt;"
    [] OTHER -> text

\* el.textContent of a <w:t> whose character data is c.
XmlText(c) ==
  CASE c = "&lt;b>" -> "<b>"
    [] c = "&amp;lt;" -> "&lt;"
    [] c = "&lt;" -> "<"
    [] OTHER -> c

\* The tokens the characters of text make when they are written into markup
\* as they are.
RawTokens(text) == IF text = "<b>" THEN <<Open("b", "")>> ELSE <<Chars(text)>>

\* --- the DOM of a markup string
TextLeaf(text, b, i, u) ==
  [kind |-> "text", text |-> text, bold |-> b, italic |-> i, underline |-> u, src |-> ""]
Img(src) ==
  [kind |-> "img", text |-> "", bold |-> FALSE, italic |-> FALSE, underline |-> FALSE,
   src |-> src]
PageNumber(b, i, u) ==
  [kind |-> "page-number", text |-> "#", bold |-> b, italic |-> i, underline |-> u,
   src |-> ""]
Block(tag, align, nodes) == [tag |-> tag, align |-> align, nodes |-> nodes]

NoContext == [b |-> 0, i |-> 0, u |-> 0]

\* DOMParser.parseFromString(html, 'text/html'): the blocks of the body, each
\* with its inline nodes in document order; a formatting element left open
\* stays in force until its end tag.  Characters outside any block make a
\* bare text node ("#text").
RECURSIVE HtmlParseFrom(_, _, _, _, _)
HtmlParseFrom(tokens, blocks, open, cur, ctx) ==
  IF tokens = <<>>
  THEN IF open THEN Append(blocks, cur) ELSE blocks
  ELSE LET k == Head(tokens)
           rest == Tail(tokens)
           closed == IF open THEN Append(blocks, cur) ELSE blocks
           Inline(node) ==
             IF open
             THEN HtmlParseFrom(rest, blocks, TRUE,
                                [cur EXCEPT !.nodes = Append(@, node)], ctx)
             ELSE HtmlParseFrom(rest, Append(blocks, Block("#text", "", <<node>>)),
                                FALSE, cur, ctx)
       IN CASE k.t = "open" /\ k.tag \in InlineTags ->
                 HtmlParseFrom(rest, blocks, open, cur,
                               [ctx EXCEPT ![k.tag] = @ + 1])
            [] k.t = "close" /\ k.tag \in InlineTags ->
                 HtmlParseFrom(rest, blocks, open, cur,
                               [ctx EXCEPT ![k.tag] = IF @ > 0 THEN @ - 1 ELSE 0])
            [] k.t = "open" /\ k.tag \notin InlineTags ->
                 HtmlParseFrom(rest, closed, TRUE, Block(k.tag, k.align, <<>>), ctx)
            [] k.t = "close" /\ k.tag \notin InlineTags ->
                 HtmlParseFrom(rest, closed, FALSE, cur, ctx)
            [] k.t = "chars" ->
                 Inline(TextLeaf(HtmlDecode(k.c), ctx.b > 0, ctx.i > 0, ctx.u > 0))
            [] k.t = "img" -> Inline(Img(k.src))
            [] k.t = "page-number" ->
                 Inline(PageNumber(ctx.b > 0, ctx.i > 0, ctx.u > 0))

HtmlParse(html) == HtmlParseFrom(html, <<>>, FALSE, Block("", "", <<>>), NoContext)

\* innerHTML of the blocks the editor holds.
SerializeNode(n) ==
  CASE n.kind = "img" -> <<ImgTag(n.src)>>
    [] n.kind = "page-number" -> <<PageNumberSpan>>
    [] OTHER ->
         (IF n.bold THEN <<Open("b", "")>> ELSE <<>>)
         \o (IF n.italic THEN <<Open("i", "")>> ELSE <<>>)
         \o (IF n.underline THEN <<Open("u", "")>> ELSE <<>>)
         \o <<Chars(HtmlEncode(n.text))>>
         \o (IF n.underline THEN <<Close("u")>> ELSE <<>>)
         \o (IF n.italic THEN <<Close("i")>> ELSE <<>>)
         \o (IF n.bold THEN <<Close("b")>> ELSE <<>>)

RECURSIVE SerializeNodes(_)
SerializeNodes(nodes) ==
  IF nodes = <<>> THEN <<>> ELSE SerializeNode(Head(nodes)) \o SerializeNodes(Tail(nodes))

RECURSIVE Serialize(_)
Serialize(blocks) ==
  IF blocks = <<>> THEN <<>>
  ELSE LET b == Head(blocks)
       IN (IF b.tag = "#text" THEN SerializeNodes(b.nodes)
           ELSE <<Open(b.tag, b.align)>> \o SerializeNodes(b.nodes) \o <<Close(b.tag)>>)
          \o Serialize(Tail(blocks))

\* --- page settings
\* Math.round(a / b) for a >= 0, b > 0.
Round(a, b) == (2 * a + b) \div (2 * b)

\* 56.6929 twips to the millimetre, as the ratio TwipsNum / TwipsDen.
TwipsNum == 566929
TwipsDen == 10000

\* twipsToMm with Math.floor in the place of Math.round.
twipsToMmFloor(num) == (num * 10 * TwipsDen) \div TwipsNum

\* Math.round((num / 56.6929) * 10) / 10, in tenths of a millimetre.
twipsToMm(num) == Round(num * 10 * TwipsDen, TwipsNum)

\* Math.round(mm * 56.6929), mm given in tenths of a millimetre.
mmToTwips(mm10) == Round(mm10 * TwipsNum, 10 * TwipsDen)

Settings(margin, indent, hasHeader, hasFooter, headerText, footerText) ==
  [marginTop |-> margin, marginBottom |-> margin, marginLeft |-> margin,
   marginRight |-> margin, firstLineIndent |-> indent, hasHeader |-> hasHeader,
   hasFooter |-> hasFooter, headerText |-> headerText, footerText |-> footerText]

\* App: useState<PageSettings>({...})
INITIAL_SETTINGS ==
  Settings(254, 0, TRUE, TRUE, <<Chars("Header content...")>>,
           <<Open("div", "center"), PageNumberSpan, Close("div")>>)

\* --- saveToDocx
Run(text, b, i, u) ==
  [kind |-> "t", text |-> text, bold |-> b, italic |-> i, underline |-> u, embed |-> 0]
Drawing(relId) ==
  [kind |-> "drawing", text |-> "", bold |-> FALSE, italic |-> FALSE,
   underline |-> FALSE, embed |-> relId]

\* processRunContent with getNextRelId giving rId5 every time.
RECURSIVE processRunContentSameId(_, _)
processRunContentSameId(nodes, acc) ==
  IF nodes = <<>> THEN acc
  ELSE LET n == Head(nodes)
           relId == 5
           next ==
             CASE n.kind = "img" /\ StartsWithDataImage(n.src) ->
                    [runs |-> Append(acc.runs, Drawing(relId)),
                     imagesToAdd |-> Append(acc.imagesToAdd,
                        [id |-> relId, data |-> Payload(n.src),
                         ext |-> IF MimeIsPng(n.src) THEN "png" ELSE "jpeg"])]
               [] n.kind = "img" /\ ~StartsWithDataImage(n.src) -> acc
               [] n.kind \in {"text", "page-number"} /\ n.text = "" -> acc
               [] OTHER ->
                    [acc EXCEPT !.runs = Append(@, Run(XmlEscape(n.text), n.bold,
                                                       n.italic, n.underline))]
       IN processRunContentSameId(Tail(nodes), next)

\* processRunContent over the inline nodes of one block.  acc.runs is the
\* result string so far, acc.imagesToAdd the shared list; a relationship id
\* rId<n> is held as n.  The span of a page number is an element like any
\* other: its text is processed as a text node.
RECURSIVE processRunContent(_, _)
processRunContent(nodes, acc) ==
  IF nodes = <<>> THEN acc
  ELSE LET n == Head(nodes)
           relId == Len(acc.imagesToAdd) + 5
           next ==
             CASE n.kind = "img" /\ StartsWithDataImage(n.src) ->
                    [runs |-> Append(acc.runs, Drawing(relId)),
                     imagesToAdd |-> Append(acc.imagesToAdd,
                        [id |-> relId, data |-> Payload(n.src),
                         ext |-> IF MimeIsPng(n.src) THEN "png" ELSE "jpeg"])]
               [] n.kind = "img" /\ ~StartsWithDataImage(n.src) -> acc
               [] n.kind \in {"text", "page-number"} /\ n.text = "" -> acc
               [] OTHER ->
                    [acc EXCEPT !.runs = Append(@, Run(XmlEscape(n.text), n.bold,
                                                       n.italic, n.underline))]
       IN processRunContent(Tail(nodes), next)

\* processBlock over the children of the body: a <w:p> for p, li and h*;
\* any other element contributes what its child elements do, and inline
\* children are not blocks.
RECURSIVE processBlock(_, _)
processBlock(blocks, acc) ==
  IF blocks = <<>> THEN acc
  ELSE LET b == Head(blocks)
           r == processRunContent(b.nodes, [runs |-> <<>>, imagesToAdd |-> acc.imagesToAdd])
           next ==
             IF b.tag \in ParagraphTags
             THEN [xml |-> Append(acc.xml,
                      [pStyle |-> IF b.tag = "h1" THEN "Heading1" ELSE "",
                       jc |-> IF b.align = "justify" THEN "both" ELSE b.align,
                       runs |-> r.runs]),
                   imagesToAdd |-> r.imagesToAdd]
             ELSE acc
       IN processBlock(Tail(blocks), next)

Relationship(img) ==
  [Id |-> img.id, Type |-> "image", Target |-> <<"media/image", img.id, img.ext>>]

\* zip.file(fileName, img.data, {base64: true}): JSZip stores an empty file
\* when data is missing.
MediaFile(img) == [name |-> <<"media/image", img.id, img.ext>>, data |-> img.data]

\* The package: word/document.xml (body and sectPr), the header and footer
\* parts, word/_rels/document.xml.rels and word/media.  wellFormed and cut
\* describe the XML text of document.xml: whether it parses, and if not, how
\* many children of the body precede the error.
saveToDocx(html, settings) ==
  LET body == processBlock(HtmlParse(html), [xml |-> <<>>, imagesToAdd |-> <<>>])
      header == processBlock(HtmlParse(settings.headerText),
                             [xml |-> <<>>, imagesToAdd |-> body.imagesToAdd])
      h == IF settings.hasHeader THEN header
           ELSE [xml |-> <<>>, imagesToAdd |-> body.imagesToAdd]
      footer == processBlock(HtmlParse(settings.footerText),
                             [xml |-> <<>>, imagesToAdd |-> h.imagesToAdd])
      f == IF settings.hasFooter THEN footer
           ELSE [xml |-> <<>>, imagesToAdd |-> h.imagesToAdd]
  IN [hasDocument |-> TRUE,
      wellFormed |-> TRUE,
      cut |-> 0,
      body |-> body.xml,
      hasPgMar |-> TRUE,
      headerReference |-> settings.hasHeader,
      footerReference |-> settings.hasFooter,
      pgMar |-> [top |-> mmToTwips(settings.marginTop),
                 right |-> mmToTwips(settings.marginRight),
                 bottom |-> mmToTwips(settings.marginBottom),
                 left |-> mmToTwips(settings.marginLeft)],
      header |-> h.xml,
      footer |-> f.xml,
      rels |-> [n \in 1..Len(f.imagesToAdd) |-> Relationship(f.imagesToAdd[n])],
      media |-> {MediaFile(f.imagesToAdd[n]) : n \in 1..Len(f.imagesToAdd)}]

\* --- parseDocxFile
\* blobToBase64 of the media file a relationship names.
blobToBase64(data) == IF data = "" THEN EmptyOctetUri ELSE OctetUri

\* imageMap[id], "" when the relationship or its file is missing.
imageMap(file, id) ==
  LET hits == {n \in 1..Len(file.rels) :
                 /\ file.rels[n].Id = id
                 /\ file.rels[n].Type = "image"
                 /\ \E m \in file.media : m.name = file.rels[n].Target}
  IN IF hits = {} THEN ""
     ELSE LET n == CHOOSE x \in hits : \A y \in hits : x >= y
              m == CHOOSE x \in file.media : x.name = file.rels[n].Target
          IN blobToBase64(m.data)

\* traverse of a <w:r>.
traverseRun(file, r) ==
  IF r.kind = "drawing"
  THEN IF imageMap(file, r.embed) # "" THEN <<ImgTag(imageMap(file, r.embed))>> ELSE <<>>
  ELSE (IF r.bold THEN <<Open("b", "")>> ELSE <<>>)
       \o (IF r.italic THEN <<Open("i", "")>> ELSE <<>>)
       \o (IF r.underline THEN <<Open("u", "")>> ELSE <<>>)
       \o RawTokens(XmlText(r.text))
       \o (IF r.underline THEN <<Close("u")>> ELSE <<>>)
       \o (IF r.italic THEN <<Close("i")>> ELSE <<>>)
       \o (IF r.bold THEN <<Close("b")>> ELSE <<>>)

RECURSIVE traverseRuns(_, _)
traverseRuns(file, runs) ==
  IF runs = <<>> THEN <<>>
  ELSE traverseRun(file, Head(runs)) \o traverseRuns(file, Tail(runs))

\* traverse over the children of the body.
RECURSIVE traverse(_, _)
traverse(file, paras) ==
  IF paras = <<>> THEN <<>>
  ELSE LET p == Head(paras)
           tagType == IF p.pStyle = "Heading1" THEN "h1" ELSE "p"
           align == IF p.jc = "both" THEN "justify" ELSE p.jc
       IN <<Open(tagType, align)>> \o traverseRuns(file, p.runs) \o <<Close(tagType)>>
          \o traverse(file, Tail(paras))

ParseResult(html, hasSettings, settings) ==
  [ok |-> TRUE, html |-> html, hasSettings |-> hasSettings, settings |-> settings]
ParseFailure ==
  [ok |-> FALSE, html |-> <<>>, hasSettings |-> FALSE, settings |-> INITIAL_SETTINGS]

\* The settings read from <w:sectPr>.
sectPrSettings(file) ==
  [marginTop |-> twipsToMm(file.pgMar.top),
   marginBottom |-> twipsToMm(file.pgMar.bottom),
   marginLeft |-> twipsToMm(file.pgMar.left),
   marginRight |-> twipsToMm(file.pgMar.right),
   firstLineIndent |-> 0,
   hasHeader |-> file.headerReference,
   hasFooter |-> file.footerReference,
   headerText |-> <<>>,
   footerText |-> <<>>]

\* The outcomes parseDocxFile can have on a package.  A missing document.xml
\* throws.  DOMParser does not throw on XML that is not well formed: it
\* returns an error document, which has no body, or in some browsers the
\* elements read before the error followed by the error element; sectPr, the
\* last child of the body, is not among them.
parseDocxFile(file) ==
  IF ~file.hasDocument THEN {ParseFailure}
  ELSE IF ~file.wellFormed
  THEN {ParseResult(<<>>, FALSE, INITIAL_SETTINGS),
        ParseResult(traverse(file, SubSeq(file.body, 1, file.cut)), FALSE,
                    INITIAL_SETTINGS)}
  ELSE {ParseResult(traverse(file, file.body), file.hasPgMar,
                    IF file.hasPgMar THEN sectPrSettings(file) ELSE INITIAL_SETTINGS)}

\* { ...prev, ...settings }
Merge(prev, settings) ==
  [k \in DOMAIN prev |-> IF k \in DOMAIN settings THEN settings[k] ELSE prev[k]]

\* --- PageSetupModal: handlePageNumChange
\* A token that ends with </span>.
EndsSpan(tok) == tok = PageNumberSpan \/ tok = Close("span")

\* The lazy .*?<\/span><\/div> from token j on: the index of the first </div>
\* that follows a </span> immediately, 0 when there is none.
RECURSIVE WrappedEnd(_, _)
WrappedEnd(text, j) ==
  IF j >= Len(text) THEN 0
  ELSE IF EndsSpan(text[j]) /\ text[j + 1] = Close("div") THEN j + 1
  ELSE WrappedEnd(text, j + 1)

\* text.replace(/<div[^>]*><span class="page-number">.*?<\/span><\/div>/g, '')
RECURSIVE replaceWrapped(_)
replaceWrapped(text) ==
  IF text = <<>> THEN <<>>
  ELSE LET end == IF /\ Head(text).t = "open"
                     /\ Head(text).tag = "div"
                     /\ Len(text) >= 2
                     /\ text[2] = PageNumberSpan
                  THEN WrappedEnd(text, 2) ELSE 0
       IN IF end > 0 THEN replaceWrapped(SubSeq(text, end + 1, Len(text)))
          ELSE <<Head(text)>> \o replaceWrapped(Tail(text))

\* text.replace(/<span class="page-number">.*?<\/span>/g, ''): the match ends
\* at the first </span>, the one of the inner <span>#</span>; the end tag of
\* the outer span stays.
RECURSIVE replaceBare(_)
replaceBare(text) ==
  IF text = <<>> THEN <<>>
  ELSE (IF Head(text) = PageNumberSpan THEN <<Close("span")>> ELSE <<Head(text)>>)
       \o replaceBare(Tail(text))

HeaderMarker == <<Open("div", "right"), PageNumberSpan, Close("div")>>
FooterMarker == <<Open("div", "center"), PageNumberSpan, Close("div")>>

Locations == {"none", "header", "footer"}

\* handlePageNumChange without the removal of the existing markers.
handlePageNumChangeKeeping(settings, location) ==
  [settings EXCEPT
     !.headerText = IF location = "header" THEN HeaderMarker \o @ ELSE @,
     !.footerText = IF location = "footer" THEN FooterMarker \o @ ELSE @,
     !.hasHeader = IF location = "header" THEN TRUE ELSE @,
     !.hasFooter = IF location = "footer" THEN TRUE ELSE @]

\* handlePageNumChange(location): the argument of the last onUpdate call.
handlePageNumChange(settings, location) ==
  LET newHeader == replaceBare(replaceWrapped(settings.headerText))
      newFooter == replaceBare(replaceWrapped(settings.footerText))
  IN [settings EXCEPT
        !.headerText = IF location = "header" THEN HeaderMarker \o newHeader
                       ELSE newHeader,
        !.footerText = IF location = "footer" THEN FooterMarker \o newFooter
                       ELSE newFooter,
        !.hasHeader = IF location = "header" THEN TRUE ELSE @,
        !.hasFooter = IF location = "footer" THEN TRUE ELSE @]

\* --- the codec on node trees
\* A node of the tree DOMParser builds from markup ('text/html'), and a node
\* of the tree it builds from word/document.xml ('text/xml').  The text of a
\* node of the XML tree is its character data as written in the part.
Element(tag, align, src, childNodes) ==
  [nodeType |-> "element", tag |-> tag, align |-> align, src |-> src, text |-> "",
   childNodes |-> childNodes]
TextNode(text) ==
  [nodeType |-> "text", tag |-> "#text", align |-> "", src |-> "", text |-> text,
   childNodes |-> <<>>]
XmlElement(tag, val, embed, childNodes) ==
  [nodeType |-> "element", tag |-> tag, val |-> val, embed |-> embed, text |-> "",
   childNodes |-> childNodes]
XmlTextNode(text) ==
  [nodeType |-> "text", tag |-> "#text", val |-> "", embed |-> 0, text |-> text,
   childNodes |-> <<>>]

\* el.querySelectorAll(tags) / el.getElementsByTagNameNS("*", tag): the
\* descendants with one of the tags, in document order.
RECURSIVE querySelectorAll(_, _)
querySelectorAll(nodes, tags) ==
  IF nodes = <<>> THEN <<>>
  ELSE LET n == Head(nodes)
       IN (IF n.nodeType = "element" /\ n.tag \in tags THEN <<n>> ELSE <<>>)
          \o querySelectorAll(n.childNodes, tags)
          \o querySelectorAll(Tail(nodes), tags)

\* el.textContent
RECURSIVE textContent(_)
textContent(nodes) ==
  IF nodes = <<>> THEN <<>>
  ELSE LET n == Head(nodes)
       IN (IF n.nodeType = "text" THEN <<n.text>> ELSE textContent(n.childNodes))
          \o textContent(Tail(nodes))

\* <w:r><w:rPr>...</w:rPr><w:t xml:space="preserve">text</w:t></w:r>
TextRun(text, context) ==
  LET rPr == (IF context.bold THEN <<XmlElement("b", "", 0, <<>>)>> ELSE <<>>)
             \o (IF context.italic THEN <<XmlElement("i", "", 0, <<>>)>> ELSE <<>>)
             \o (IF context.underline THEN <<XmlElement("u", "single", 0, <<>>)>> ELSE <<>>)
  IN XmlElement("r", "", 0,
       (IF rPr = <<>> THEN <<>> ELSE <<XmlElement("rPr", "", 0, rPr)>>)
       \o <<XmlElement("t", "", 0, <<XmlTextNode(XmlEscape(text))>>)>>)

\* <w:r><w:drawing> ... <a:blip r:embed="relId"/> ... </w:drawing></w:r>
DrawingRun(relId) ==
  XmlElement("r", "", 0,
    <<XmlElement("drawing", "", 0,
        <<XmlElement("inline", "", 0, <<XmlElement("blip", "", relId, <<>>)>>)>>)>>)

\* tag.startsWith('h'), over the tags of the model.
StartsWithH(tag) == tag \in {"h1", "h2", "h3", "h4", "h5", "h6", "hr", "header"}

\* processRunContent(nodes, context): acc.xml is the result string so far,
\* acc.imagesToAdd the shared list.
RECURSIVE processRunContentTree(_, _, _)
processRunContentTree(nodes, context, acc) ==
  IF nodes = <<>> THEN acc
  ELSE LET node == Head(nodes)
           relId == Len(acc.imagesToAdd) + 5
           newContext ==
             [bold |-> context.bold \/ node.tag \in {"b", "strong"},
              italic |-> context.italic \/ node.tag \in {"i", "em"},
              underline |-> context.underline \/ node.tag = "u"]
           next ==
             CASE node.nodeType = "text" /\ node.text = "" -> acc
               [] node.nodeType = "text" /\ node.text # "" ->
                    [acc EXCEPT !.xml = Append(@, TextRun(node.text, context))]
               [] node.nodeType = "element" /\ node.tag = "img"
                  /\ StartsWithDataImage(node.src) ->
                    [xml |-> Append(acc.xml, DrawingRun(relId)),
                     imagesToAdd |-> Append(acc.imagesToAdd,
                        [id |-> relId, data |-> Payload(node.src),
                         ext |-> IF MimeIsPng(node.src) THEN "png" ELSE "jpeg"])]
               [] node.nodeType = "element" /\ node.tag = "img"
                  /\ ~StartsWithDataImage(node.src) -> acc
               [] OTHER -> processRunContentTree(node.childNodes, newContext, acc)
       IN processRunContentTree(Tail(nodes), context, next)

ParagraphContext == [bold |-> FALSE, italic |-> FALSE, underline |-> FALSE]

\* The cells of one row: <w:tc><w:p><w:r>cellContent</w:r></w:p></w:tc>.
RECURSIVE TableCells(_, _)
TableCells(tds, acc) ==
  IF tds = <<>> THEN acc
  ELSE LET c == processRunContentTree(Head(tds).childNodes, ParagraphContext,
                                      [xml |-> <<>>, imagesToAdd |-> acc.imagesToAdd])
           tc == XmlElement("tc", "", 0,
                   <<XmlElement("p", "", 0, <<XmlElement("r", "", 0, c.xml)>>)>>)
       IN TableCells(Tail(tds), [xml |-> Append(acc.xml, tc),
                                 imagesToAdd |-> c.imagesToAdd])

\* The rows of a table: Array.from(el.querySelectorAll('tr')).map(...).
RECURSIVE TableRows(_, _)
TableRows(trs, acc) ==
  IF trs = <<>> THEN acc
  ELSE LET r == TableCells(querySelectorAll(Head(trs).childNodes, {"td", "th"}),
                           [xml |-> <<>>, imagesToAdd |-> acc.imagesToAdd])
       IN TableRows(Tail(trs), [xml |-> Append(acc.xml, XmlElement("tr", "", 0, r.xml)),
                                imagesToAdd |-> r.imagesToAdd])

\* processBlock(node), for a node of any depth.
RECURSIVE processBlockTree(_, _)
processBlockTree(nodes, acc) ==
  IF nodes = <<>> THEN acc
  ELSE LET node == Head(nodes)
           rows == TableRows(querySelectorAll(node.childNodes, {"tr"}),
                             [xml |-> <<>>, imagesToAdd |-> acc.imagesToAdd])
           runs == processRunContentTree(node.childNodes, ParagraphContext,
                                         [xml |-> <<>>, imagesToAdd |-> acc.imagesToAdd])
           pPr == (IF node.tag = "h1"
                   THEN <<XmlElement("pStyle", "Heading1", 0, <<>>)>> ELSE <<>>)
                  \o (IF node.align # ""
                      THEN <<XmlElement("jc", IF node.align = "justify" THEN "both"
                                              ELSE node.align, 0, <<>>)>>
                      ELSE <<>>)
           next ==
             CASE node.nodeType # "element" -> acc
               [] node.nodeType = "element" /\ node.tag = "table" ->
                    [xml |-> Append(acc.xml, XmlElement("tbl", "", 0, rows.xml)),
                     imagesToAdd |-> rows.imagesToAdd]
               [] node.nodeType = "element" /\ node.tag # "table"
                  /\ (node.tag \in {"p", "li"} \/ StartsWithH(node.tag)) ->
                    [xml |-> Append(acc.xml,
                        XmlElement("p", "", 0,
                          (IF pPr = <<>> THEN <<>>
                           ELSE <<XmlElement("pPr", "", 0, pPr)>>) \o runs.xml)),
                     imagesToAdd |-> runs.imagesToAdd]
               [] OTHER -> processBlockTree(node.childNodes, acc)
       IN processBlockTree(Tail(nodes), next)

\* val.toLowerCase().startsWith("heading"), then `h${val.replace(/[^0-9]/g, '')}`.
HeadingTag(val) ==
  CASE val = "Heading1" -> "h1"
    [] val = "Heading2" -> "h2"
    [] val = "Heading3" -> "h3"
    [] val = "Heading4" -> "h4"
    [] val = "Heading5" -> "h5"
    [] val = "Heading6" -> "h6"
    [] OTHER -> "p"

RECURSIVE ConcatTokens(_)
ConcatTokens(texts) ==
  IF texts = <<>> THEN <<>>
  ELSE RawTokens(XmlText(Head(texts))) \o ConcatTokens(Tail(texts))

\* traverse(node), for a node of any depth; file gives the relationships and
\* the media of the package.
RECURSIVE traverseTree(_, _)
traverseTree(file, nodes) ==
  IF nodes = <<>> THEN <<>>
  ELSE LET node == Head(nodes)
           inner == traverseTree(file, node.childNodes)
           blip == querySelectorAll(node.childNodes, {"blip"})
           src == IF blip = <<>> THEN "" ELSE imageMap(file, Head(blip).embed)
           pPr == querySelectorAll(node.childNodes, {"pPr"})
           pStyle == IF pPr = <<>> THEN <<>>
                     ELSE querySelectorAll(Head(pPr).childNodes, {"pStyle"})
           jc == IF pPr = <<>> THEN <<>>
                 ELSE querySelectorAll(Head(pPr).childNodes, {"jc"})
           tagType == IF pStyle = <<>> THEN "p" ELSE HeadingTag(Head(pStyle).val)
           align == IF jc = <<>> THEN ""
                    ELSE IF Head(jc).val = "both" THEN "justify" ELSE Head(jc).val
           rPr == querySelectorAll(node.childNodes, {"rPr"})
           Has(t) == rPr # <<>> /\ querySelectorAll(Head(rPr).childNodes, {t}) # <<>>
           this ==
             CASE node.nodeType = "text" -> <<>>
               [] node.nodeType = "element" /\ node.tag = "tbl" ->
                    <<Open("table", "")>> \o inner \o <<Close("table")>>
               [] node.nodeType = "element" /\ node.tag = "tr" ->
                    <<Open("tr", "")>> \o inner \o <<Close("tr")>>
               [] node.nodeType = "element" /\ node.tag = "tc" ->
                    <<Open("td", "")>> \o inner \o <<Close("td")>>
               [] node.nodeType = "element" /\ node.tag = "drawing" /\ src # "" ->
                    <<ImgTag(src)>>
               [] node.nodeType = "element" /\ node.tag = "p" ->
                    <<Open(tagType, align)>> \o inner \o <<Close(tagType)>>
               [] node.nodeType = "element" /\ node.tag = "r" ->
                    (IF Has("b") THEN <<Open("b", "")>> ELSE <<>>)
                    \o (IF Has("i") THEN <<Open("i", "")>> ELSE <<>>)
                    \o (IF Has("u") THEN <<Open("u", "")>> ELSE <<>>)
                    \o inner
                    \o (IF Has("u") THEN <<Close("u")>> ELSE <<>>)
                    \o (IF Has("i") THEN <<Close("i")>> ELSE <<>>)
                    \o (IF Has("b") THEN <<Close("b")>> ELSE <<>>)
               [] node.nodeType = "element" /\ node.tag = "t" ->
                    ConcatTokens(textContent(node.childNodes))
               [] node.nodeType = "element" /\ node.tag = "br" -> <<Open("br", "")>>
               [] OTHER -> inner
       IN this \o traverseTree(file, Tail(nodes))

\* ---------------------------------------------------------------- host files
\* Documents the editor's own operations build (typing, formatting, alignment,
\* inserting an image or a page number), as the blocks of their DOM.
EditorDocs ==
  { << Block("p", "", <<TextLeaf("Hello ", FALSE, FALSE, FALSE),
                        TextLeaf("World", TRUE, FALSE, FALSE)>>) >>,
    << Block("h1", "center", <<TextLeaf("Hello ", FALSE, TRUE, TRUE)>>),
       Block("li", "justify", <<TextLeaf("World", FALSE, FALSE, FALSE)>>) >>,
    << Block("p", "right", <<TextLeaf("<b>", FALSE, FALSE, FALSE),
                             TextLeaf("World", FALSE, TRUE, FALSE)>>) >>,
    << Block("p", "left", <<TextLeaf("&lt;", FALSE, FALSE, TRUE)>>) >>,
    << Block("p", "", <<Img(NoPayloadUri),
                        TextLeaf("Hello ", FALSE, FALSE, FALSE),
                        Img(PngDataUri)>>) >>,
    << Block("p", "", <<Img(RemoteUri), PageNumber(FALSE, FALSE, FALSE)>>) >> }

\* Settings a session can hold (PageSetupModal).
SessionSettings ==
  { INITIAL_SETTINGS,
    Settings(200, 125, FALSE, TRUE, <<>>,
             <<Open("p", "center"), Chars("Hello "), Close("p")>>),
    Settings(254, 0, TRUE, TRUE,
             <<Open("p", ""), ImgTag(PngDataUri), Close("p")>>,
             <<Open("p", "center"), ImgTag(PngDataUri), PageNumberSpan, Close("p")>>) }

\* A package written by another application: one paragraph of the given
\* text, margins of t twips on every side.
ExternalDocx(text, t) ==
  [hasDocument |-> TRUE, wellFormed |-> TRUE, cut |-> 0,
   body |-> << [pStyle |-> "", jc |-> "", runs |-> <<Run(text, FALSE, FALSE, FALSE)>>] >>,
   hasPgMar |-> TRUE, headerReference |-> FALSE, footerReference |-> FALSE,
   pgMar |-> [top |-> t, right |-> t, bottom |-> t, left |-> t],
   header |-> <<>>, footer |-> <<>>, rels |-> <<>>, media |-> {}]

\* The same package without word/document.xml, and with a document.xml
\* whose XML breaks after the first paragraph.
MissingDocument == [ExternalDocx("World", 1440) EXCEPT !.hasDocument = FALSE]
UnparsableDocument == [ExternalDocx("World", 1440) EXCEPT !.wellFormed = FALSE, !.cut = 1]

Files ==
  {ExternalDocx("World", 1440), ExternalDocx("Hello ", 720), MissingDocument,
   UnparsableDocument}

Broken(file) == ~file.hasDocument \/ ~file.wellFormed

NoDownload ==
  [present |-> FALSE, file |-> MissingDocument, html |-> <<>>,
   settings |-> INITIAL_SETTINGS]

\* An import in flight: the file, its place in trigger order, whether another
\* import was in flight when it was triggered, and, when the file is a
\* download of this session, what was exported into it.
Pending(id, file, overlapped, known, html, settings) ==
  [id |-> id, file |-> file, overlapped |-> overlapped, known |-> known,
   html |-> html, settings |-> settings]

NoTrigger == Pending(0, MissingDocument, FALSE, FALSE, <<>>, INITIAL_SETTINGS)

NoImportDone ==
  [done |-> FALSE, ok |-> FALSE, entry |-> NoTrigger, content |-> <<>>,
   pageSettings |-> INITIAL_SETTINGS]

\* ---------------------------------------------------------------- node trees
\* Markup the editor can hold (typed, pasted or imported), as the children of
\* the body DOMParser builds from it.
InlineNodes ==
  { TextNode("Hello "),
    Element("b", "", "", <<TextNode("World")>>),
    Element("span", "", "", <<TextNode("World")>>),
    Element("span", "", "", <<Element("i", "", "", <<TextNode("<")>>)>>),
    Element("img", "", PngDataUri, <<>>) }

BlockNodes ==
  { Element(tag, align, "", <<x>>) :
      tag \in {"p", "li", "h1", "h2", "h6", "div", "header"},
      align \in {"", "center"}, x \in InlineNodes }

HorizontalRule == Element("hr", "", "", <<>>)

TableNode ==
  Element("table", "", "",
    <<Element("tbody", "", "",
        <<Element("tr", "", "",
            <<Element("td", "", "", <<TextNode("Hello ")>>),
              Element("td", "", "",
                <<Element("div", "", "", <<Element("img", "", PngDataUri, <<>>),
                                           TextNode("World")>>)>>)>>)>>)>>)

WrappedNodes ==
  { Element(tag, "", "", <<x>>) :
      tag \in {"div", "header"}, x \in BlockNodes \cup {HorizontalRule, TableNode} }

HtmlBodies ==
  { <<x>> : x \in InlineNodes \cup BlockNodes \cup WrappedNodes
                  \cup {HorizontalRule, TableNode} }
  \cup { <<x, Element("p", "", "", <<Element("img", "", PngDataUri, <<>>)>>)>> :
           x \in InlineNodes \cup {HorizontalRule, TableNode} }

\* Bodies of word/document.xml written by another application: a paragraph
\* of one run, the run inside a hyperlink or the paragraph inside a
\* structured document tag.
XmlParagraph(pStyle, jc, kids) ==
  XmlElement("p", "", 0,
    (IF pStyle = "" /\ jc = "" THEN <<>>
     ELSE <<XmlElement("pPr", "", 0,
              (IF pStyle = "" THEN <<>> ELSE <<XmlElement("pStyle", pStyle, 0, <<>>)>>)
              \o (IF jc = "" THEN <<>> ELSE <<XmlElement("jc", jc, 0, <<>>)>>))>>)
    \o kids)

XmlRuns ==
  { <<TextRun("World", [bold |-> b, italic |-> FALSE, underline |-> b])>> :
      b \in BOOLEAN }
  \cup { <<XmlElement("hyperlink", "", 0,
             <<TextRun("Hello ", [bold |-> b, italic |-> TRUE, underline |-> FALSE])>>)>> :
           b \in BOOLEAN }

XmlBodies ==
  { <<XmlParagraph(pStyle, jc, runs)>> :
      pStyle \in {"", "Heading2", "Title"}, jc \in {"", "both"}, runs \in XmlRuns }
  \cup { <<XmlElement("sdt", "", 0,
             <<XmlElement("sdtContent", "", 0,
                 <<XmlParagraph(pStyle, "center", runs)>>)>>)>> :
           pStyle \in {"", "Heading2"}, runs \in XmlRuns }

\* One run of the codec on a tree: the tree given to saveToDocx, the body of
\* the document.xml written or read, the images registered, and the markup
\* parseDocxFile returns.
NoCodec ==
  [stage |-> "none", dom |-> <<>>, xml |-> <<>>, imagesToAdd |-> <<>>, html |-> <<>>]

\* ---------------------------------------------------------------- state
VARIABLES
  engine,          \* which version of the editor component runs
  dom,             \* the .page-content elements and their child nodes
  focus,           \* the page that holds document.activeElement, 0 if none
  content,         \* App: const [content, setContent]
  pendingContent,  \* the argument of a setContent not yet rendered, or None
  pageCount,       \* Editor.tsx: const [pageCount, setPageCount]
  pages,           \* part_000: const [pages, setPages]
  updates,         \* queued setPageCount / setPages updaters, not yet rendered
  rafRef,          \* Editor.tsx: an animation-frame callback is pending
  timers,          \* pending setTimeout(..., 0) callbacks, oldest first
  lastEmitRef,     \* Editor.tsx: lastEmitRef.current
  internalUpdate,  \* part_000: internalUpdate.current
  edits,           \* number of user events so far
  delivered,       \* observer: the argument of the last onContentChange call
  dirty,           \* observer: a pass since the last user event changed something
  last,            \* observer: what the most recent balance invocation did
  imported,        \* observer: the last import and how far the engine took it
  selection,       \* window.getSelection(): where the anchor of the caret is
  signals,         \* observer: pages of the input events no pass has covered yet
  pageSettings,    \* App: const [pageSettings, setPageSettings]
  download,        \* the document.docx saved last, and what was exported into it
  inflight,        \* imports whose parseDocxFile has not completed yet
  toast,           \* the last toast shown
  lastImport,      \* observer: the import completed last and the state it found
  latest,          \* observer: the import triggered last
  codec,           \* the codec's run on a node tree, stage by stage
  editedFrom       \* observer: the number of nodes hosted when the last single edit was made

vars == <<engine, dom, focus, content, pendingContent, pageCount, pages, updates,
          rafRef, timers, lastEmitRef, internalUpdate, edits, delivered, dirty,
          last, imported, selection, signals, pageSettings, download, inflight,
          toast, lastImport, latest, codec, editedFrom>>

\* The state of the editor component, and the state of the host's file actions.
engineVars == <<engine, dom, focus, pendingContent, pageCount, pages, updates,
                rafRef, timers, lastEmitRef, internalUpdate, edits, delivered,
                dirty, last, imported, selection, signals>>
docx == <<pageSettings, download, inflight, toast, lastImport, latest, codec,
          editedFrom>>

NoPass == [ran |-> FALSE, start |-> 0, moved |-> FALSE, req |-> "none",
           emitted |-> FALSE, overflowed |-> FALSE]

\* The record of an invocation with result r that started at page start on DOM d.
PassRecord(r, start, d) ==
  [ran |-> TRUE, start |-> start, moved |-> r.pages # d, req |-> r.req,
   emitted |-> r.emit # None,
   overflowed |-> d # <<>> /\ Overflows(d[1])]

\* The invocation with result r on DOM d moved a node, or asked for a page
\* to be created or destroyed.
Changes(r, d) == r.pages # d \/ r.req # "none"

\* stage 0: setContent(html) was called; 1: the DOM has been seen as one page
\* hosting exactly html; 2: a pass from page 0 has run after that.
NoImport == [html |-> None, stage |-> 0]

Seen(imp, d) ==
  IF imp.html # None /\ imp.stage = 0 /\ Len(d) = 1 /\ getAllContent(d) = imp.html
  THEN [imp EXCEPT !.stage = 1]
  ELSE imp

Balanced(imp, start) ==
  IF imp.stage = 1 /\ start = 1 THEN [imp EXCEPT !.stage = 2] ELSE imp

\* The anchor of the selection: inside the block with identity node, at a
\* character offset; or on a page element, between two of its children; or
\* nowhere.
Anchor(node, offset) == [node |-> node, page |-> 0, offset |-> offset]
OnPage(i) == [node |-> 0, page |-> i, offset |-> 0]
NoSelection == [node |-> 0, page |-> 0, offset |-> 0]

\* The page of DOM d that hosts the node with identity x, 0 if none does.
PageOf(d, x) ==
  IF \E i \in 1..Len(d) : x \in Ids(<<d[i]>>)
  THEN CHOOSE i \in 1..Len(d) : x \in Ids(<<d[i]>>)
  ELSE 0

\* DOM ranges are live: when a node is taken out of its parent, a boundary
\* point inside the node moves to the parent.
Collapse(sel, d, removed) ==
  IF sel.node # 0 /\ sel.node \in removed THEN OnPage(PageOf(d, sel.node)) ELSE sel

\* The selection after DOM d was replaced by DOM e.
Relocate(sel, d, e) == Collapse(sel, d, Ids(d) \ Ids(e))

\* The caret after an input event on page i of DOM d: at the end of the text
\* of the last block, or on the page when there is no such text.
CaretAfterInput(d, i) ==
  IF d[i] # <<>> /\ TextLen(Last(d[i])[2]) > 0
  THEN Anchor(Last(d[i])[1], TextLen(Last(d[i])[2]))
  ELSE OnPage(i)

\* The nodes on different pages in d and e.
Moved(d, e) == {x \in Ids(d) : PageOf(d, x) # PageOf(e, x)}

\* The nodes the backward pass of balancePages appends to the previous page,
\* put back or not.
RECURSIVE BackwardTried(_, _)
BackwardTried(d, i) ==
  IF i >= Len(d) THEN {}
  ELSE IF d[i + 1] # <<>> THEN
         LET t == PullFirst(d, i)
         IN {Head(d[i + 1])[1]} \cup
            (IF Overflows(t[i]) THEN BackwardTried(d, i + 1) ELSE BackwardTried(t, i))
  ELSE BackwardTried(d, i + 1)

\* The same for the backward pass of balanceFromPage.
RECURSIVE PullTried(_, _)
PullTried(d, i) ==
  IF i >= Len(d) THEN {}
  ELSE IF d[i + 1] # <<>> THEN
         LET t == PullFirst(d, i)
         IN {Head(d[i + 1])[1]} \cup
            (IF scrollHeight(t[i]) > clientHeight THEN PullTried(d, i + 1)
             ELSE PullTried(t, i + 1))
  ELSE PullTried(d, i + 1)

\* The selection after balancePages ran on DOM d: no move puts it back.
SelectionAfterBalancePages(sel, d) ==
  LET f == ForwardPass(d, 1, FALSE)
      s == Collapse(sel, d, Moved(d, f.pages))
  IN IF f.halt THEN s ELSE Collapse(s, f.pages, BackwardTried(f.pages, 1))

\* The selection after balanceFromPage(startIndex) ran on DOM d:
\* moveOverflowContent puts the selection back after each move, the backward
\* pass does not.
SelectionAfterBalanceFromPage(sel, d, startIndex) ==
  LET f == ForwardFrom(d, startIndex, FALSE)
  IN IF f.halt THEN sel ELSE Collapse(sel, f.pages, PullTried(f.pages, 1))

\* The input events left uncovered by a pass that starts at page start.
Uncovered(sig, start) == SelectSeq(sig, LAMBDA p : p < start)

Update(op, arg) == [op |-> op, arg |-> arg]
\* A timer whose pass starts one page after the page of the input event.
TimerOffByOne(page, html) == [page |-> page + 1, html |-> html]
Timer(page, html) == [page |-> page, html |-> html]

InitEditorTsx ==
  /\ engine = EditorTsx
  /\ dom = << <<>> >>
  /\ pageCount = 1
  /\ pages = <<>>
  /\ updates = <<>>
  /\ rafRef = TRUE
  /\ lastEmitRef = DEFAULT_CONTENT
  /\ internalUpdate = FALSE

InitPart000 ==
  /\ engine = Part000
  /\ dom = << <<>> >>
  /\ pageCount = 0
  /\ pages = << <<>> >>
  /\ updates = <<Update("set", DEFAULT_CONTENT)>>
  /\ rafRef = FALSE
  /\ lastEmitRef = None
  /\ internalUpdate = FALSE

Init ==
  /\ InitEditorTsx \/ InitPart000
  /\ focus = 0
  /\ content = DEFAULT_CONTENT
  /\ pendingContent = None
  /\ timers = <<>>
  /\ edits = 0
  /\ delivered = None
  /\ dirty = FALSE
  /\ last = NoPass
  /\ imported = NoImport
  /\ selection = NoSelection
  /\ signals = <<>>
  /\ pageSettings = INITIAL_SETTINGS
  /\ download = NoDownload
  /\ inflight = <<>>
  /\ toast = "none"
  /\ lastImport = NoImportDone
  /\ latest = NoTrigger
  /\ codec = NoCodec
  /\ editedFrom = 0

\* ---------------------------------------------------------------- user
\* The user types a paragraph of kind k at the end of page i.
TypeParagraph(d, i, k) == [d EXCEPT ![i] = Append(d[i], <<FreshId(Ids(d)), k>>)]
\* The user deletes the last node of page i.
DeleteLast(d, i) == [d EXCEPT ![i] = Front(d[i])]
\* The user selects a page's whole content and deletes it: a <br> remains.
ClearPage(d, i) == [d EXCEPT ![i] = <<<<FreshId(Ids(d) \ Ids(<<d[i]>>)), "br">>>>]

\* onInput of page i: balancePages, or handleInput(index).
Input ==
  /\ edits < MaxEdits
  /\ \E i \in 1..Len(dom) :
       /\ \/ /\ Len(Flat(dom)) < MaxBlocks
             /\ \E k \in {"p", "ws"} : dom' = TypeParagraph(dom, i, k)
          \/ /\ dom[i] # <<>>
             /\ dom' = DeleteLast(dom, i)
          \/ /\ Len(dom[i]) > 1
             /\ dom' = ClearPage(dom, i)
       /\ focus' = i
       /\ selection' = CaretAfterInput(dom', i)
       /\ signals' = Append(signals, i)
       /\ IF engine = EditorTsx
          THEN rafRef' = TRUE /\ timers' = timers
          ELSE rafRef' = rafRef /\ timers' = Append(timers, Timer(i, <<>>))
  /\ edits' = edits + 1
  /\ dirty' = FALSE
  /\ last' = NoPass
  /\ imported' = NoImport
  /\ UNCHANGED <<engine, content, pendingContent, pageCount, pages, updates,
                 lastEmitRef, internalUpdate, delivered>>

UserInput == Input /\ UNCHANGED docx

\* handleFileAction('import'): parseDocxFile resolved with html; setContent(html).
Import ==
  /\ edits < MaxEdits
  /\ \E html \in Docs :
       /\ pendingContent' = html
       /\ imported' = [html |-> html, stage |-> 0]
  /\ edits' = edits + 1
  /\ dirty' = FALSE
  /\ last' = NoPass
  /\ UNCHANGED docx
  /\ UNCHANGED <<engine, dom, focus, content, pageCount, pages, updates, rafRef,
                 timers, lastEmitRef, internalUpdate, delivered, selection, signals>>

\* ---------------------------------------------------------------- engine
\* The page count the queued updaters lead to.
RECURSIVE ApplyCount(_, _)
ApplyCount(c, us) ==
  IF us = <<>> THEN c
  ELSE ApplyCount(CASE Head(us).op = "inc" -> c + 1
                    [] Head(us).op = "dec" -> c - 1
                    [] OTHER -> 1,
                  Tail(us))

RECURSIVE ApplyPages(_, _)
ApplyPages(p, us) ==
  IF us = <<>> THEN p
  ELSE ApplyPages(CASE Head(us).op = "append" -> Append(p, PLACEHOLDER)
                    [] Head(us).op = "slice" -> SubSeq(p, 1, Len(p) - 1)
                    [] OTHER -> <<Head(us).arg>>,
                  Tail(us))

\* Array.from({ length: pageCount }): the first n pages kept, empty ones added.
ResizeDom(d, n) ==
  [i \in 1..Max(n, 0) |-> IF i <= Len(d) THEN d[i] ELSE <<>>]

\* pages.map with dangerouslySetInnerHTML: a kept page whose html prop is the
\* same string is left as it is, otherwise its innerHTML is set.
RECURSIVE RenderPages(_, _, _, _)
RenderPages(d, old, new, i) ==
  IF i > Len(new) THEN SubSeq(d, 1, Len(new))
  ELSE IF i <= Len(old) /\ old[i] = new[i] THEN RenderPages(d, old, new, i + 1)
  ELSE LET kept == [j \in 1..Len(d) |-> IF j = i \/ j > Len(new) THEN <<>> ELSE d[j]]
           nodes == Parse(new[i], Ids(kept))
       IN RenderPages(IF i <= Len(d) THEN [d EXCEPT ![i] = nodes] ELSE Append(d, nodes),
                      old, new, i + 1)

\* Requested with the page request queued twice.
RequestedTwice(r) ==
  CASE r.req = "create" -> <<Update(IF engine = EditorTsx THEN "inc" ELSE "append", <<>>),
                             Update(IF engine = EditorTsx THEN "inc" ELSE "append", <<>>)>>
    [] r.req = "destroy" -> <<Update(IF engine = EditorTsx THEN "dec" ELSE "slice", <<>>),
                              Update(IF engine = EditorTsx THEN "dec" ELSE "slice", <<>>)>>
    [] OTHER -> <<>>

Requested(r) ==
  CASE r.req = "create" -> <<Update(IF engine = EditorTsx THEN "inc" ELSE "append", <<>>)>>
    [] r.req = "destroy" -> <<Update(IF engine = EditorTsx THEN "dec" ELSE "slice", <<>>)>>
    [] OTHER -> <<>>

\* The page count once everything queued is rendered.
Target(us) == IF engine = EditorTsx THEN ApplyCount(pageCount, us)
              ELSE Len(ApplyPages(pages, us))

\* The import the host asked for never reached it: the content is what it was.
Dropped(imp, html) ==
  IF imp.stage = 0 /\ pendingContent = imp.html /\ html = content THEN NoImport ELSE imp

\* Editor.tsx: the callback given to requestAnimationFrame runs.
AnimationFrame ==
  /\ engine = EditorTsx
  /\ rafRef
  /\ LET r == balancePages(dom, lastEmitRef)
     IN /\ Target(updates \o Requested(r)) <= MaxPages
        /\ dom' = r.pages
        /\ updates' = updates \o Requested(r)
        /\ lastEmitRef' = IF r.emit # None THEN r.emit ELSE lastEmitRef
        /\ pendingContent' = IF r.emit # None THEN r.emit ELSE pendingContent
        /\ delivered' = IF r.emit # None THEN r.emit ELSE delivered
        /\ dirty' = (dirty \/ Changes(r, dom))
        /\ last' = PassRecord(r, 1, dom)
        /\ imported' = Balanced(imported, 1)
        /\ selection' = SelectionAfterBalancePages(selection, dom)
        /\ signals' = Uncovered(signals, 1)
  /\ rafRef' = FALSE
  /\ UNCHANGED docx
  /\ UNCHANGED <<engine, focus, content, pageCount, pages, timers, internalUpdate, edits>>

\* Editor.tsx: the timer of the content effect runs.
ImportTimer ==
  /\ engine = EditorTsx
  /\ timers # <<>>
  /\ LET html == IF Head(timers).html = <<>> THEN PLACEHOLDER ELSE Head(timers).html
         d == IF dom = <<>> THEN dom
              ELSE [dom EXCEPT ![1] = Parse(html, Ids(Tail(dom)))]
     IN /\ dom' = d
        /\ imported' = Seen(imported, d)
        /\ selection' = Relocate(selection, dom, d)
  /\ timers' = Tail(timers)
  /\ rafRef' = TRUE
  /\ last' = NoPass
  /\ UNCHANGED docx
  /\ UNCHANGED <<engine, focus, content, pendingContent, pageCount, pages, updates,
                 lastEmitRef, internalUpdate, edits, delivered, dirty, signals>>

\* Editor.tsx: React renders App and Editor and runs the effects.
RenderEditorTsx ==
  /\ engine = EditorTsx
  /\ updates # <<>> \/ pendingContent # None
  /\ LET count == ApplyCount(pageCount, updates)
         html == IF pendingContent = None THEN content ELSE pendingContent
         rendered == count # pageCount \/ html # content
         reset == html # content /\ html # lastEmitRef
         d == ResizeDom(dom, count)
     IN /\ pageCount' = count
        /\ content' = html
        /\ dom' = d
        /\ focus' = IF focus > Len(d) THEN 0 ELSE focus
        /\ rafRef' = (rafRef \/ rendered)
        /\ updates' = IF reset THEN <<Update("one", <<>>)>> ELSE <<>>
        /\ timers' = IF reset THEN Append(timers, Timer(1, html)) ELSE timers
        /\ imported' = Seen(Dropped(imported, html), d)
        /\ selection' = Relocate(selection, dom, d)
  /\ pendingContent' = None
  /\ last' = NoPass
  /\ UNCHANGED docx
  /\ UNCHANGED <<engine, pages, lastEmitRef, internalUpdate, edits, delivered, dirty,
                 signals>>

\* part_000: the timer of handleInput runs balanceFromPage(pageIndex).
InputTimer ==
  /\ engine = Part000
  /\ timers # <<>>
  /\ LET start == Head(timers).page
         r == balanceFromPage(dom, start, focus)
     IN /\ Target(updates \o Requested(r)) <= MaxPages
        /\ dom' = r.pages
        /\ updates' = updates \o Requested(r)
        /\ pendingContent' = IF r.emit # None THEN r.emit ELSE pendingContent
        /\ internalUpdate' = (internalUpdate \/ r.emit # None)
        /\ delivered' = IF r.emit # None THEN r.emit ELSE delivered
        /\ dirty' = (dirty \/ Changes(r, dom))
        /\ last' = PassRecord(r, start, dom)
        /\ imported' = Balanced(imported, start)
        /\ selection' = SelectionAfterBalanceFromPage(selection, dom, start)
        /\ signals' = Uncovered(signals, start)
  /\ timers' = Tail(timers)
  /\ UNCHANGED docx
  /\ UNCHANGED <<engine, focus, content, pageCount, pages, rafRef, lastEmitRef, edits>>

\* part_000: React renders App and Editor; the layout effect balances from
\* page 0 when pages.length changed, then the content effect runs.
RenderPart000 ==
  /\ engine = Part000
  /\ updates # <<>> \/ pendingContent # None
  /\ LET p == ApplyPages(pages, updates)
         html == IF pendingContent = None THEN content ELSE pendingContent
         d == RenderPages(dom, pages, p, 1)
         f == IF focus > Len(d) THEN 0 ELSE focus
         layout == Len(p) # Len(pages)
         r == IF layout THEN balanceFromPage(d, 1, f)
              ELSE [pages |-> d, req |-> "none", emit |-> None]
         internal == internalUpdate \/ r.emit # None
         effect == html # content
         reset == effect /\ ~internal /\ html # <<>>
         queued == Requested(r) \o (IF reset THEN <<Update("set", html)>> ELSE <<>>)
         imp == Seen(Dropped(imported, html), d)
     IN /\ Len(ApplyPages(p, queued)) <= MaxPages
        /\ pages' = p
        /\ content' = html
        /\ dom' = r.pages
        /\ focus' = f
        /\ updates' = queued
        /\ pendingContent' = r.emit
        /\ internalUpdate' = IF effect THEN FALSE ELSE internal
        /\ delivered' = IF r.emit # None THEN r.emit ELSE delivered
        /\ dirty' = (dirty \/ (layout /\ Changes(r, d)))
        /\ last' = IF layout THEN PassRecord(r, 1, d) ELSE NoPass
        /\ imported' = IF layout THEN Balanced(imp, 1) ELSE imp
        /\ selection' = IF layout
                        THEN SelectionAfterBalanceFromPage(Relocate(selection, dom, d), d, 1)
                        ELSE Relocate(selection, dom, d)
        /\ signals' = IF layout THEN Uncovered(signals, 1) ELSE signals
  /\ UNCHANGED docx
  /\ UNCHANGED <<engine, pageCount, rafRef, timers, lastEmitRef, edits>>

\* No balance invocation, timer, animation frame or render is pending.
Quiescent ==
  /\ ~rafRef
  /\ timers = <<>>
  /\ updates = <<>>
  /\ pendingContent = None

\* Nothing is waiting to be rendered.
Rendered == updates = <<>> /\ pendingContent = None

Next ==
  \/ UserInput
  \/ Import
  \/ AnimationFrame
  \/ ImportTimer
  \/ RenderEditorTsx
  \/ InputTimer
  \/ RenderPart000

Spec == Init /\ [][Next]_vars

\* The schedule of an unhurried user: queued state updates are rendered before
\* anything else runs, a due timer runs before the animation frame, and the
\* next user event comes only when the engine is quiescent.
SettledNext ==
  \/ RenderEditorTsx
  \/ RenderPart000
  \/ Rendered /\ ImportTimer
  \/ Rendered /\ InputTimer
  \/ Rendered /\ timers = <<>> /\ AnimationFrame
  \/ Quiescent /\ UserInput
  \/ Quiescent /\ Import

SettledSpec == Init /\ [][SettledNext]_vars

TypeOK ==
  /\ engine \in Engines
  /\ focus \in 0..Len(dom)
  /\ edits \in 0..MaxEdits
  /\ Len(dom) <= MaxPages

\* ---------------------------------------------------------------- a paginated document
\* A document of three paragraphs that the engine has laid out on two pages
\* (two paragraphs fill a page), nothing pending: the state both versions
\* reach from Init by user events, and from which the events below are counted.
PagedDom == << << <<1, "p">>, <<2, "p">> >>, << <<3, "p">> >> >>

PagedEditorTsx ==
  /\ engine = EditorTsx
  /\ pageCount = 2
  /\ pages = <<>>
  /\ rafRef = FALSE
  /\ lastEmitRef = getAllContent(PagedDom)
  /\ content = getAllContent(PagedDom)
  /\ internalUpdate = FALSE

PagedPart000 ==
  /\ engine = Part000
  /\ pageCount = 0
  /\ pages = << <<"p">>, PLACEHOLDER >>
  /\ rafRef = FALSE
  /\ lastEmitRef = None
  /\ content = <<"p", "p", "p", "e">>
  /\ internalUpdate = FALSE

\* The program state of a paginated document.
Paged ==
  /\ PagedEditorTsx \/ PagedPart000
  /\ dom = PagedDom
  /\ pendingContent = None
  /\ updates = <<>>
  /\ timers = <<>>

PagedInit ==
  /\ Paged
  /\ focus = 0
  /\ edits = 0
  /\ delivered = None
  /\ dirty = FALSE
  /\ last = NoPass
  /\ imported = NoImport
  /\ selection = NoSelection
  /\ signals = <<>>
  /\ pageSettings = INITIAL_SETTINGS
  /\ download = NoDownload
  /\ inflight = <<>>
  /\ toast = "none"
  /\ lastImport = NoImportDone
  /\ latest = NoTrigger
  /\ codec = NoCodec
  /\ editedFrom = 0

PagedSpec == PagedInit /\ [][Next]_vars

\* ---------------------------------------------------------------- edits only
\* The steps the engine takes by itself, in the order of the unhurried
\* schedule: the render of queued updates, then the debounced timer, then the
\* animation frame.
EngineChain ==
  \/ RenderEditorTsx
  \/ RenderPart000
  \/ Rendered /\ InputTimer
  \/ Rendered /\ timers = <<>> /\ AnimationFrame

\* The user only types and deletes (every block typed fits on an empty page),
\* one edit at a time, the next one when the engine is quiescent; the document
\* is the default one or the paginated one.
\* One edit, made when the engine is quiescent.
SingleEdit ==
  /\ Quiescent
  /\ Input
  /\ editedFrom' = Len(Flat(dom))
  /\ UNCHANGED <<pageSettings, download, inflight, toast, lastImport, latest, codec>>

EditNext ==
  \/ EngineChain
  \/ SingleEdit

EditSpec == (Init \/ PagedInit) /\ [][EditNext]_vars

\* ---------------------------------------------------------------- host file actions
\* The state of the engine while the host's file actions are looked at.
EngineAtRest ==
  /\ InitEditorTsx
  /\ focus = 0
  /\ pendingContent = None
  /\ timers = <<>>
  /\ edits = 0
  /\ delivered = None
  /\ dirty = FALSE
  /\ last = NoPass
  /\ imported = NoImport
  /\ selection = NoSelection
  /\ signals = <<>>

DocxInit ==
  /\ EngineAtRest
  /\ content \in {Serialize(d) : d \in EditorDocs}
  /\ pageSettings \in SessionSettings
  /\ download = NoDownload
  /\ inflight = <<>>
  /\ toast = "none"
  /\ lastImport = NoImportDone
  /\ latest = NoTrigger
  /\ codec = NoCodec
  /\ editedFrom = 0

\* handleFileAction('save'): saveToDocx(content, pageSettings), downloaded as
\* document.docx.
SaveDocx ==
  /\ download' = [present |-> TRUE, file |-> saveToDocx(content, pageSettings),
                  html |-> content, settings |-> pageSettings]
  /\ toast' = "saved"
  /\ UNCHANGED <<content, pageSettings, inflight, lastImport, latest, codec, editedFrom>>
  /\ UNCHANGED engineVars

\* handleFileAction('import', e) up to the await: parseDocxFile(file) starts.
ImportStart(entry) ==
  /\ latest.id < MaxImports
  /\ latest' = [entry EXCEPT !.id = latest.id + 1, !.overlapped = inflight # <<>>]
  /\ inflight' = Append(inflight, latest')
  /\ UNCHANGED <<content, pageSettings, download, toast, lastImport, codec, editedFrom>>
  /\ UNCHANGED engineVars

\* The user picks a file of another application.
ImportFile ==
  \E f \in Files :
    ImportStart(Pending(0, f, FALSE, FALSE, <<>>, INITIAL_SETTINGS))

\* The user picks the document.docx saved last.
ImportDownload ==
  /\ download.present
  /\ ImportStart(Pending(0, download.file, FALSE, TRUE, download.html,
                         download.settings))

\* The parse of the k-th import in flight completes and handleFileAction
\* resumes after the await.
ImportDone(k) ==
  /\ k \in 1..Len(inflight)
  /\ \E r \in parseDocxFile(inflight[k].file) :
       /\ content' = IF r.ok THEN r.html ELSE content
       /\ pageSettings' = IF r.ok /\ r.hasSettings
                          THEN Merge(pageSettings, r.settings)
                          ELSE pageSettings
       /\ toast' = IF r.ok THEN "success" ELSE "error"
       /\ lastImport' = [done |-> TRUE, ok |-> r.ok, entry |-> inflight[k],
                         content |-> content, pageSettings |-> pageSettings]
  /\ inflight' = SubSeq(inflight, 1, k - 1) \o SubSeq(inflight, k + 1, Len(inflight))
  /\ UNCHANGED <<download, latest, codec, editedFrom>>
  /\ UNCHANGED engineVars

ImportCompletes == \E k \in 1..Len(inflight) : ImportDone(k)

DocxNext ==
  \/ SaveDocx
  \/ ImportFile
  \/ ImportDownload
  \/ ImportCompletes

DocxSpec == DocxInit /\ [][DocxNext]_vars

\* ---------------------------------------------------------------- margins
\* The host's file actions over a range of margins: the session holds margins
\* of m tenths of a millimetre, 0 <= m <= MaxMm, or the import of a package
\* with margins of t twips, 0 <= t <= MaxTwips, is in flight.
MarginInit ==
  /\ EngineAtRest
  /\ content = <<Open("p", ""), Chars("World"), Close("p")>>
  /\ download = NoDownload
  /\ toast = "none"
  /\ lastImport = NoImportDone
  /\ \/ /\ \E m \in 0..MaxMm : pageSettings = Settings(m, 0, TRUE, TRUE, <<>>, <<>>)
        /\ inflight = <<>>
        /\ latest = NoTrigger
     \/ /\ pageSettings = INITIAL_SETTINGS
        /\ \E t \in 0..MaxTwips :
             latest = Pending(1, ExternalDocx("World", t), FALSE, FALSE, <<>>,
                              INITIAL_SETTINGS)
        /\ inflight = <<latest>>
  /\ codec = NoCodec
  /\ editedFrom = 0

MarginNext ==
  \/ SaveDocx
  \/ ImportDownload
  \/ ImportCompletes

MarginSpec == MarginInit /\ [][MarginNext]_vars

\* ---------------------------------------------------------------- the codec on trees
CodecInit ==
  /\ EngineAtRest
  /\ content = <<>>
  /\ pageSettings = INITIAL_SETTINGS
  /\ download = NoDownload
  /\ inflight = <<>>
  /\ toast = "none"
  /\ lastImport = NoImportDone
  /\ latest = NoTrigger
  /\ editedFrom = 0
  /\ \/ \E d \in HtmlBodies : codec = [NoCodec EXCEPT !.stage = "html", !.dom = d]
     \/ \E x \in XmlBodies : codec = [NoCodec EXCEPT !.stage = "xml", !.xml = x]

\* The relationships and the media of the package the codec wrote.
CodecFile ==
  [rels |-> [n \in 1..Len(codec.imagesToAdd) |-> Relationship(codec.imagesToAdd[n])],
   media |-> {MediaFile(codec.imagesToAdd[n]) : n \in 1..Len(codec.imagesToAdd)}]

\* saveToDocx: xmlBody = processBlock(doc.body).
ExportTree ==
  /\ codec.stage = "html"
  /\ LET out == processBlockTree(codec.dom, [xml |-> <<>>, imagesToAdd |-> <<>>])
     IN codec' = [codec EXCEPT !.stage = "exported", !.xml = out.xml,
                               !.imagesToAdd = out.imagesToAdd]
  /\ UNCHANGED <<content, pageSettings, download, inflight, toast, lastImport, latest,
                 editedFrom>>
  /\ UNCHANGED engineVars

\* parseDocxFile: html = Array.from(body.childNodes).map(traverse).join("").
ImportTree ==
  /\ codec.stage \in {"xml", "exported"}
  /\ codec' = [codec EXCEPT !.stage = IF codec.stage = "xml" THEN "imported"
                                      ELSE "reimported",
                            !.html = traverseTree(CodecFile, codec.xml)]
  /\ UNCHANGED <<content, pageSettings, download, inflight, toast, lastImport, latest,
                 editedFrom>>
  /\ UNCHANGED engineVars

CodecNext == ExportTree \/ ImportTree

CodecSpec == CodecInit /\ [][CodecNext]_vars

\* ---------------------------------------------------------------- page setup
\* The session while the Page Setup dialog and the header and footer of a
\* page are used; the engine is at rest.
SetupInit ==
  /\ EngineAtRest
  /\ content = <<Open("p", ""), Chars("World"), Close("p")>>
  /\ pageSettings \in SessionSettings
  /\ download = NoDownload
  /\ inflight = <<>>
  /\ toast = "none"
  /\ lastImport = NoImportDone
  /\ latest = NoTrigger
  /\ codec = NoCodec
  /\ editedFrom = 0

\* onUpdate(newSettings) / setPageSettings(prev => ...)
SetPageSettings(settings) ==
  /\ pageSettings' = settings
  /\ UNCHANGED <<content, download, inflight, toast, lastImport, latest, codec,
                 editedFrom>>
  /\ UNCHANGED engineVars

\* A radio button of "Page Numbers".
PageNumChange ==
  \E location \in Locations :
    SetPageSettings(handlePageNumChange(pageSettings, location))

\* The check boxes "Show Header" and "Show Footer".
UpdateSetting ==
  \E key \in {"hasHeader", "hasFooter"} :
    SetPageSettings([pageSettings EXCEPT ![key] = ~@])

\* The innerHTML of a header or footer the user has edited: emptied, a word
\* typed after the last block, a word typed into the last block (a block
\* closed by </div>), or a page number inserted at the end with the toolbar
\* button.
Typed(text) ==
  {<<>>}
  \cup (IF \E k \in 1..Len(text) : text[k] = Chars("Hello ") THEN {}
        ELSE {text \o <<Chars("Hello ")>>}
             \cup (IF text # <<>> /\ Last(text) = Close("div")
                   THEN {Front(text) \o <<Chars("Hello "), Close("div")>>}
                   ELSE {}))
  \cup (IF \E k \in 1..Len(text) : EndsSpan(text[k]) THEN {}
        ELSE {text \o <<PageNumberSpan>>})

\* onBlur of the header or of the footer of a page.
HeaderFooterChange ==
  \/ /\ pageSettings.hasHeader
     /\ \E html \in Typed(pageSettings.headerText) :
          SetPageSettings([pageSettings EXCEPT !.headerText = html])
  \/ /\ pageSettings.hasFooter
     /\ \E html \in Typed(pageSettings.footerText) :
          SetPageSettings([pageSettings EXCEPT !.footerText = html])

SetupNext ==
  \/ PageNumChange
  \/ UpdateSetting
  \/ HeaderFooterChange

SetupSpec == SetupInit /\ [][SetupNext]_vars

\* ---------------------------------------------------------------- claims
\* The nodes that are blocks (a bare <br> is a line break, not a block), in
\* page order.
RECURSIVE BlocksOf(_)
BlocksOf(nodes) ==
  IF nodes = <<>> THEN <<>>
  ELSE (IF Head(nodes)[2] = "br" THEN <<>> ELSE <<Head(nodes)>>) \o BlocksOf(Tail(nodes))

Blocks(d) == BlocksOf(Flat(d))

PageRequests == {"inc", "dec", "append", "slice"}

\* A render that carries out exactly what the invocation just before it asked for.
RequestedRender ==
  /\ last.ran
  /\ last.req # "none"
  /\ Len(updates) = 1
  /\ updates[1].op \in PageRequests
  /\ RenderEditorTsx \/ RenderPart000

\* A step of the engine alone: a balance invocation, or the render of the
\* page creation or destruction it asked for, with no user event in between.
EngineStep == AnimationFrame \/ InputTimer \/ RequestedRender

\* C1: a balance invocation, and the page creation or destruction it asked
\* for, leave the concatenation of the pages' blocks in page order as it was:
\* no block is lost, duplicated, added or reordered.
C1_BlocksKept == [][EngineStep => Blocks(dom') = Blocks(dom)]_vars

\* C2: no step of the engine (push, pull, page creation, page destruction)
\* reduces the number of text characters hosted across all pages.
C2_TextKept == [][EngineStep => TextChars(Flat(dom')) >= TextChars(Flat(dom))]_vars

\* C3: in every reachable state there is at least one page.
C3_AtLeastOnePage == Len(dom) >= 1

NoOverflow == \A i \in 1..Len(dom) : ~Overflows(dom[i])

\* Every hosted node fits in a page on its own.
AllFit == \A n \in 1..Len(Flat(dom)) : NodeHeight(Flat(dom)[n][2]) <= clientHeight + Epsilon

\* C4: for blocks that each fit in a page, once no further invocation is
\* triggered no page's measured height exceeds the box height by more than
\* Epsilon.
C4_Converged == Quiescent /\ AllFit => NoOverflow

\* The document is one block taller than a page (and at most empty paragraphs
\* and line breaks besides).
OversizedOnly ==
  LET nodes == Flat(dom)
  IN /\ Cardinality({n \in 1..Len(nodes) : nodes[n][2] = "img"}) = 1
     /\ \A n \in 1..Len(nodes) : nodes[n][2] \in {"img", "e", "br"}

\* C5: when the document is a single block taller than a page, the engine
\* stops retrying: with a page already created for the block, an invocation
\* does not ask for yet another page.
C5_StopsRetrying ==
  ~(last.ran /\ last.req = "create" /\ Len(dom) >= 2 /\ OversizedOnly)

\* C6: once an import that replaced the host's content has been processed
\* and the engine is quiescent, the page set has been one page hosting
\* exactly the imported markup and a pass from page 0 has run on it.
C6_ImportBalanced == Quiescent /\ imported.html # None => imported.stage = 2

\* C7: if the invocations since the last user event moved a node, created a
\* page or destroyed a page, then at quiescence the markup last delivered to
\* the host is the concatenation of the pages' markup in page order.
C7_DeliveredCurrent == Quiescent /\ dirty => delivered = getAllContent(dom)

\* The most recent invocation moved no node and asked for no page change.
NoOpPass == last.ran /\ ~last.moved /\ last.req = "none"

\* C8: an invocation in which no node is moved and no page is created or
\* destroyed does not call onContentChange.
C8_NoOpSilent == NoOpPass => ~last.emitted

\* A no-op pass of balancePages on a DOM whose markup differs from the last
\* emitted one: only the change flag keeps it from emitting.
C8_Witness ==
  /\ NoOpPass
  /\ engine = EditorTsx
  /\ getAllContent(dom) # lastEmitRef
  /\ ~last.emitted

\* The block that follows page i's content in document order: the first node
\* of the first later page that is not empty, if that node is a block.
NextBlock(d, i) ==
  LET rest == Flat(SubSeq(d, i + 1, Len(d)))
  IN IF rest = <<>> THEN <<>> ELSE BlocksOf(<<Head(rest)>>)

\* Page i has room for the block that follows its content.
UnderFilled(d, i) ==
  /\ NextBlock(d, i) # <<>>
  /\ ~Overflows(d[i] \o NextBlock(d, i))

\* C9: when the engine is quiescent no page but the last is under-filled: the
\* first block hosted after it would not fit into it.
C9_NoUnderFill == Quiescent => \A i \in 1..(Len(dom) - 1) : ~UnderFilled(dom, i)

C11_FailedImportUntouched ==
  lastImport.done /\ Broken(lastImport.entry.file) =>
    /\ ~lastImport.ok
    /\ content = lastImport.content
    /\ pageSettings = lastImport.pageSettings

\* Every input event not yet covered has, in receipt order, a pending timer
\* of its own whose pass starts at its page or earlier.
RECURSIVE Served(_, _)
Served(sig, ts) ==
  IF sig = <<>> THEN TRUE
  ELSE IF ts = <<>> THEN FALSE
  ELSE IF Head(ts).page <= Head(sig) THEN Served(Tail(sig), Tail(ts))
  ELSE Served(sig, Tail(ts))

\* C12: content-changed signals are handled in receipt order and none is
\* dropped: as long as no pass starting at page i or earlier has run since
\* the signal for page i, such a pass is pending, and the pending passes of
\* the signals stand in the order the signals came in.  (Editor.tsx: every
\* pass starts at the first page and one pending animation frame serves all
\* signals; part_000: one timer per signal, first in first out.)
C12_SignalsInOrder ==
  /\ engine = EditorTsx /\ signals # <<>> => rafRef
  /\ engine = Part000 => Served(signals, timers)

\* The signal of the second page was handled first; the signal that came
\* after it, for the first page, still waits with its timer.
C12_Witness ==
  /\ engine = Part000
  /\ last.ran /\ last.start = 2
  /\ signals = <<1>>
  /\ Len(timers) = 1 /\ Head(timers).page = 1

\* C13: when an import was triggered while an earlier one was still in
\* flight, then once no import is in flight the host's content and
\* PageSettings are those of the import triggered last, whatever the order
\* in which the parses completed.
C13_LaterImportWins ==
  inflight = <<>> /\ latest.overlapped /\ ~Broken(latest.file) =>
    \A r \in parseDocxFile(latest.file) :
      /\ content = r.html
      /\ r.hasSettings => pageSettings = Merge(pageSettings, r.settings)

\* A step in which a balance pass runs.
BalancePass == AnimationFrame \/ InputTimer \/ RenderPart000

\* The block that holds the anchor of the caret is on another page after the
\* step.
AnchorBlockMoved ==
  /\ selection.node # 0
  /\ PageOf(dom, selection.node) # 0
  /\ PageOf(dom', selection.node) # 0
  /\ PageOf(dom', selection.node) # PageOf(dom, selection.node)

\* C14: when a pass moves the block that holds the caret's anchor to another
\* page (forward push or backward pull), the selection after the move is
\* anchored at the same node and the same character offset as before.
C14_CaretKept == [][BalancePass /\ AnchorBlockMoved => selection' = selection]_vars

\* The trailing page hosts nothing, or a single empty placeholder.
TrailingEmpty ==
  \/ Last(dom) = <<>>
  \/ Len(Last(dom)) = 1 /\ Last(dom)[1][2] \in {"e", "br"}

\* The anchor of the selection is on page i or inside one of its nodes.
HoldsSelection(i) ==
  \/ selection.page = i
  \/ selection.node # 0 /\ PageOf(dom, selection.node) = i

\* C15: when a pass has requested the destruction of the trailing page, that
\* page hosts no content, or only a single empty placeholder, and does not
\* contain the selection.
C15_DestroyOnlyEmpty ==
  last.ran /\ last.req = "destroy" =>
    /\ dom # <<>>
    /\ TrailingEmpty
    /\ ~HoldsSelection(Len(dom))

\* The inline nodes of the blocks of a DOM, and the runs of the paragraphs of
\* a document part, in document order.
RECURSIVE AllNodes(_)
AllNodes(blocks) ==
  IF blocks = <<>> THEN <<>> ELSE Head(blocks).nodes \o AllNodes(Tail(blocks))

RECURSIVE AllRuns(_)
AllRuns(paras) ==
  IF paras = <<>> THEN <<>> ELSE Head(paras).runs \o AllRuns(Tail(paras))

\* An <img> whose src starts with data:image but carries no payload.
MalformedImage(n) == n.kind = "img" /\ StartsWithDataImage(n.src) /\ Payload(n.src) = ""
\* An <img> whose src is a data URI with a payload.
EmbeddableImage(n) == n.kind = "img" /\ StartsWithDataImage(n.src) /\ Payload(n.src) # ""

IsDrawing(r) == r.kind = "drawing"

\* C16: when the exported markup holds an image whose src is a malformed data
\* URI, the export completes, the body has a drawing for every well-formed
\* embedded image and for no other, and there is a relationship entry and a
\* media file for those images only.
C16_MalformedImageSkipped ==
  LET nodes == AllNodes(HtmlParse(download.html))
      good == Len(SelectSeq(nodes, EmbeddableImage))
  IN download.present /\ SelectSeq(nodes, MalformedImage) # <<>> =>
       /\ Len(SelectSeq(AllRuns(download.file.body), IsDrawing)) = good
       /\ Len(download.file.rels) = good
       /\ Cardinality(download.file.media) = good

IsText(n) == n.kind = "text"

\* The text leaves of a markup string with their bold/italic/underline flags,
\* and the alignment of its blocks, in document order.
TextLeaves(html) == SelectSeq(AllNodes(HtmlParse(html)), IsText)
Alignments(html) == [n \in 1..Len(HtmlParse(html)) |-> HtmlParse(html)[n].align]

\* Markup of paragraphs, headings and list items that hold text runs only.
EditorBuilt(html) ==
  /\ \A n \in 1..Len(HtmlParse(html)) : HtmlParse(html)[n].tag \in ParagraphTags
  /\ \A n \in 1..Len(AllNodes(HtmlParse(html))) : IsText(AllNodes(HtmlParse(html))[n])

\* C17: when a document.docx exported from markup of the editor's own block
\* and run kinds has been imported, the content has the same sequence of
\* text leaves with the same bold/italic/underline flags and the same
\* alignment on every block as the exported markup.
C17_RoundTrip ==
  lastImport.done /\ lastImport.entry.known /\ EditorBuilt(lastImport.entry.html) =>
    /\ lastImport.ok
    /\ TextLeaves(content) = TextLeaves(lastImport.entry.html)
    /\ Alignments(content) = Alignments(lastImport.entry.html)

\* C18: when a document.docx exported with the settings s has been imported
\* and the host has merged the imported settings into the session, the
\* session's PageSettings equal s (margins, first-line indent, header and
\* footer flags, header and footer content).
C18_SettingsRoundTrip ==
  lastImport.done /\ lastImport.entry.known =>
    /\ lastImport.ok
    /\ pageSettings = lastImport.entry.settings

Abs(n) == IF n < 0 THEN -n ELSE n

\* The sides of a page.
Sides == {"top", "right", "bottom", "left"}
MarginOf(settings, side) ==
  CASE side = "top" -> settings.marginTop
    [] side = "right" -> settings.marginRight
    [] side = "bottom" -> settings.marginBottom
    [] side = "left" -> settings.marginLeft

\* The session holds the settings of the import completed last, and the
\* download was exported from them.
ExportedAfterImport ==
  /\ lastImport.done /\ lastImport.ok
  /\ download.present /\ download.settings = pageSettings

\* Every margin of the download is within d twips of the margin of the
\* imported package.
ExportWithin(d) ==
  \A side \in Sides :
    Abs(download.file.pgMar[side] - lastImport.entry.file.pgMar[side]) <= d

\* A one-decimal millimetre margin that was exported and imported again is
\* the same margin.
MmRoundTrip ==
  lastImport.done /\ lastImport.ok /\ lastImport.entry.known =>
    \A side \in Sides :
      MarginOf(pageSettings, side) = MarginOf(lastImport.entry.settings, side)

\* C19 as stated: a margin of t twips imports to a one-decimal millimetre
\* value and exports back to a value within 1 twip of t; a one-decimal
\* millimetre margin exports and imports again to exactly itself.
C19_WithinOne ==
  /\ ExportedAfterImport => ExportWithin(1)
  /\ MmRoundTrip

\* C19, amended: a margin of t twips imports to the nearest tenth of a
\* millimetre and exports back to a value within 3 twips of t (1440 imports to
\* 25.4 and exports to exactly 1440); a one-decimal millimetre margin exports
\* and imports again to exactly itself.
C19_WithinThree ==
  /\ ExportedAfterImport => ExportWithin(3)
  /\ ExportedAfterImport /\ lastImport.entry.file.pgMar.top = 1440 =>
       pageSettings.marginTop = 254 /\ download.file.pgMar.top = 1440
  /\ MmRoundTrip

\* A package with margins of 1443 twips was imported as 25.5 mm and exported
\* again, as 1446 twips.
C19_Witness ==
  /\ ExportedAfterImport
  /\ ~lastImport.entry.known
  /\ lastImport.entry.file.pgMar.top = 1443
  /\ pageSettings.marginTop = 255
  /\ download.file.pgMar.top = 1446

IsPageNumber(n) == n.kind = "page-number"
\* The run that carries the field instruction (PAGE) between the begin and
\* separate field characters, and a text run with the placeholder's text.
IsFieldInstruction(r) == r.kind = "instrText"
IsPlaceholderText(r) == r.kind = "t" /\ r.text = PageNumberSpan.c

\* The part written for markup html has one field instruction for every
\* page-number placeholder of html and no run with the placeholder's text.
FieldsFor(html, part) ==
  /\ Len(SelectSeq(AllRuns(part), IsFieldInstruction))
       = Len(SelectSeq(AllNodes(HtmlParse(html)), IsPageNumber))
  /\ SelectSeq(AllRuns(part), IsPlaceholderText) = <<>>

\* C20: in the exported body, header and footer every page-number
\* placeholder of the markup is replaced by the field-code sequence (begin,
\* instruction PAGE, separate, cached value, end) and its literal text is not
\* emitted as a text run.
C20_PageNumberField ==
  download.present =>
    /\ FieldsFor(download.html, download.file.body)
    /\ download.settings.hasHeader =>
         FieldsFor(download.settings.headerText, download.file.header)
    /\ download.settings.hasFooter =>
         FieldsFor(download.settings.footerText, download.file.footer)

\* Tags neither direction of the codec names: in markup, and in document.xml.
UnrecognizedHtml == {"div", "span", "hr", "header", "tbody"}
UnrecognizedXml == {"hyperlink", "sdt", "sdtContent", "inline"}

\* The tree in which each element with one of the tags is replaced by its
\* children.
RECURSIVE Transparent(_, _)
Transparent(nodes, tags) ==
  IF nodes = <<>> THEN <<>>
  ELSE LET n == Head(nodes)
           kids == Transparent(n.childNodes, tags)
       IN (IF n.nodeType = "element" /\ n.tag \in tags THEN kids
           ELSE <<[n EXCEPT !.childNodes = kids]>>)
          \o Transparent(Tail(nodes), tags)

ExportOf(nodes) == processBlockTree(nodes, [xml |-> <<>>, imagesToAdd |-> <<>>]).xml

\* C21: in both directions an unrecognized tag is a transparent container:
\* the exporter writes for a tree what it writes for the tree in which each
\* unrecognized element is replaced by its children, and the importer
\* returns for a body what it returns for the body without its unrecognized
\* elements.
C21_TransparentContainers ==
  /\ codec.stage = "exported" =>
       codec.xml = ExportOf(Transparent(codec.dom, UnrecognizedHtml))
  /\ codec.stage \in {"imported", "reimported"} =>
       codec.html = traverseTree(CodecFile, Transparent(codec.xml, UnrecognizedXml))

\* The queued updaters that add a page, and those that remove one.
Creates(us) == Len(SelectSeq(us, LAMBDA u : u.op \in {"inc", "append"}))
Destroys(us) == Len(SelectSeq(us, LAMBDA u : u.op \in {"dec", "slice"}))

\* An invocation on DOM d with result r that asked for a page did nothing
\* after the forward pass met the overflowing last page: that page still
\* overflows, no node went to an earlier page, no page is gone, nothing is
\* emitted.
HaltedAtOnce(d, r) ==
  r.req = "create" =>
    /\ r.emit = None
    /\ Len(r.pages) = Len(d)
    /\ Overflows(Last(r.pages))
    /\ \A x \in Ids(d) : PageOf(r.pages, x) >= PageOf(d, x)

\* The step runs an invocation that asks for a page.
PageRequested == BalancePass /\ last'.ran /\ last'.req = "create"

\* The step renders the page the last invocation asked for.
PageRendered ==
  /\ last.ran /\ last.req = "create"
  /\ RenderEditorTsx \/ RenderPart000
  /\ Len(dom') > Len(dom)

\* The invocation of the step queues one updater that adds a page, none that
\* removes one, and calls onContentChange with nothing.
OneRequest ==
  /\ Creates(updates') = (IF RenderPart000 THEN 0 ELSE Creates(updates)) + 1
  /\ Destroys(updates') = (IF RenderPart000 THEN 0 ELSE Destroys(updates))
  /\ delivered' = delivered
  /\ ~last'.emitted

\* After the step an invocation from the first page is pending or has run.
Retriggered == IF engine = EditorTsx THEN rafRef' ELSE last'.ran /\ last'.start = 1

\* C22: an invocation whose forward pass finds the last page overflowing
\* asks for exactly one new trailing page and halts at once (no further
\* move, no backward pass, no cleanup, no emission), and a fresh invocation
\* from page 0 runs once the new page exists: it is pending or has run when
\* the render that adds the page is done, never part of the halted one.
C22_HaltAndRetrigger ==
  /\ [](\A start \in 1..Len(dom) :
          IF engine = EditorTsx
          THEN HaltedAtOnce(dom, balancePages(dom, lastEmitRef))
          ELSE HaltedAtOnce(dom, balanceFromPage(dom, start, focus)))
  /\ [][(PageRequested => OneRequest) /\ (PageRendered => Retriggered)]_vars

\* An invocation has pushed a block to the next page, met the overflowing
\* last page and asked for a page: the request is queued, nothing is emitted.
C22_Witness ==
  /\ last.ran /\ last.req = "create" /\ last.moved /\ ~last.emitted
  /\ Creates(updates) = 1
  /\ Len(dom) >= 2
  /\ Overflows(Last(dom))

\* The pages the backward pass of an invocation works on: the DOM its forward
\* pass leaves, when an invocation is pending and its forward pass does not
\* halt; <<>> otherwise.
BackwardInput ==
  IF engine = EditorTsx
  THEN LET f == ForwardPass(dom, 1, FALSE)
       IN IF rafRef /\ ~f.halt THEN f.pages ELSE <<>>
  ELSE IF timers = <<>> \/ Head(timers).page > Len(dom) THEN <<>>
  ELSE LET f == ForwardFrom(dom, Head(timers).page, FALSE)
       IN IF f.halt THEN <<>> ELSE f.pages

\* The pages when the backward pass on DOM d has finished with page i: the
\* pass has handled pages 1..i and touched nothing after page i + 1.
FinishedWith(d, i) ==
  (IF engine = EditorTsx THEN BackwardPass(SubSeq(d, 1, i + 1), 1, FALSE).pages
   ELSE PullBack(SubSeq(d, 1, i + 1), 1, FALSE).pages)
  \o SubSeq(d, i + 2, Len(d))

\* C23: in one backward pass, when the pass has finished with a non-last
\* page i, page i+1 hosts nothing or its first block does not fit in page i
\* (pulling it would make page i overflow).
C23_PullUntilFull ==
  \A i \in 1..(Len(BackwardInput) - 1) :
    LET d == FinishedWith(BackwardInput, i)
    IN d[i + 1] = <<>> \/ Overflows(Append(d[i], Head(d[i + 1])))

\* Pulling the first block of page i + 1 of DOM d into page i makes page i
\* overflow.
PullOverflows(d, i) == d[i + 1] # <<>> /\ Overflows(PullFirst(d, i)[i])

\* What the backward pass does at page i of DOM d, the pages after page
\* i + 1 left aside.
BackwardAt(d, i) ==
  LET sub == SubSeq(d, 1, i + 1)
  IN IF engine = EditorTsx
     THEN LET b == BackwardPass(sub, i, FALSE) IN <<b.pages, b.didChange>>
     ELSE LET b == PullBack(sub, i, FALSE) IN <<b.pages, b.changesMade>>

\* The whole invocation on the DOM, started at the first page.
InvocationOn(d) ==
  IF engine = EditorTsx THEN balancePages(d, lastEmitRef) ELSE balanceFromPage(d, 1, focus)

\* C24: a tentative backward pull that makes page i overflow is undone
\* exactly: pages i and i+1 host the block sequences they hosted before the
\* attempt, the pass flags no change for it, and an invocation that did
\* nothing else emits nothing.
C24_PullUndone ==
  /\ \A i \in 1..(Len(dom) - 1) :
       PullOverflows(dom, i) => BackwardAt(dom, i) = <<SubSeq(dom, 1, i + 1), FALSE>>
  /\ (\E i \in 1..(Len(dom) - 1) : PullOverflows(dom, i))
     /\ InvocationOn(dom).pages = dom /\ InvocationOn(dom).req = "none"
       => InvocationOn(dom).emit = None
  /\ last.ran /\ ~last.moved /\ last.req = "none" => ~last.emitted

\* An invocation has run on two full pages and a third one: every pull it
\* tried overflowed and was undone, the pages are as they were, nothing was
\* emitted.
C24_Witness ==
  /\ last.ran /\ ~last.moved /\ last.req = "none" /\ ~last.emitted
  /\ \E i \in 1..(Len(dom) - 1) : PullOverflows(dom, i)
  /\ Len(Flat(dom)) >= 3

\* The identifiers the image references of a package name, in the order the
\* exporter met the images: body, header, footer.
EmbedIds(file) ==
  LET d == SelectSeq(AllRuns(file.body) \o AllRuns(file.header) \o AllRuns(file.footer),
                     IsDrawing)
  IN [k \in 1..Len(d) |-> d[k].embed]

\* Identifiers rId1..rId4 are kept free for the fixed parts (getNextRelId
\* starts after them); the fixed relationships are named rIdStyles,
\* rIdHeader and rIdFooter, which no rId<n> equals.
ReservedRelIds == 1..4

\* C25: the images of an export (body, header and footer) get relationship
\* identifiers that strictly increase in encounter order, are pairwise
\* distinct and are none of the reserved ones; each identifier has exactly
\* one relationship entry and exactly one media file, and every image
\* reference names a registered identifier.
C25_ImageRelIds ==
  download.present =>
    LET ids == EmbedIds(download.file)
        rels == download.file.rels
    IN /\ \A j, k \in 1..Len(ids) : j < k => ids[j] < ids[k]
       /\ \A k \in 1..Len(ids) : ids[k] \notin ReservedRelIds
       /\ Len(rels) = Len(ids)
       /\ \A k \in 1..Len(ids) :
            /\ Cardinality({n \in 1..Len(rels) : rels[n].Id = ids[k]}) = 1
            /\ Cardinality({m \in download.file.media :
                              m.name = <<"media/image", ids[k], m.name[3]>>}) = 1
       /\ \A n \in 1..Len(rels) :
            /\ \E k \in 1..Len(ids) : ids[k] = rels[n].Id
            /\ \E m \in download.file.media : m.name = rels[n].Target

\* An export with two images in the body, one in the header and one in the
\* footer.
C25_Witness ==
  /\ download.present
  /\ Len(EmbedIds(download.file)) = 4
  /\ SelectSeq(AllRuns(download.file.footer), IsDrawing) # <<>>
  /\ SelectSeq(AllRuns(download.file.header), IsDrawing) # <<>>

\* C26: whenever the engine is quiescent, the host's content (the markup
\* handed to saveToDocx on export) is the concatenation of the pages' markup
\* in page order: at session start, and after any user edits, imports and
\* balance passes, edits that move no node included.
C26_ContentCurrent == Quiescent => content = getAllContent(dom)
\* The balance invocation that is due in the current state.
PassDue ==
  /\ Rendered
  /\ IF engine = EditorTsx THEN rafRef /\ timers = <<>> ELSE timers # <<>>

DuePass ==
  IF engine = EditorTsx THEN balancePages(dom, lastEmitRef)
  ELSE balanceFromPage(dom, Head(timers).page, focus)

\* The invocation that is due can run: the page it would ask for is within
\* the pages the model holds.
ChainNotCut == PassDue => Target(updates \o Requested(DuePass)) <= MaxPages

PageCountBound == edits > 0 => Len(dom) <= editedFrom + 1

EndsBalanced == Quiescent /\ edits > 0 => NoOverflow

TextNodes(nodes) == SelectSeq(textContent(nodes), LAMBDA t : t # "")

\* The character data of the w:t elements of a body, in document order.
ExportedTexts(xml) == textContent(querySelectorAll(xml, {"t"}))

\* C28: the exporter keeps every text leaf: each non-empty text node of the
\* tree given to it, whatever its container, is the text of exactly one text
\* run of the exported body (with & and < escaped), in document order.
C28_TextLeavesKept ==
  codec.stage = "exported" =>
    ExportedTexts(codec.xml)
      = [k \in 1..Len(TextNodes(codec.dom)) |-> XmlEscape(TextNodes(codec.dom)[k])]

HeadingTags == {"h1", "h2", "h3", "h4", "h5", "h6"}

\* The style "Heading n" of the heading tag hn.
HeadingStyle(tag) ==
  CASE tag = "h1" -> "Heading1"
    [] tag = "h2" -> "Heading2"
    [] tag = "h3" -> "Heading3"
    [] tag = "h4" -> "Heading4"
    [] tag = "h5" -> "Heading5"
    [] tag = "h6" -> "Heading6"

\* The heading elements of the tree given to the exporter, the paragraph
\* styles of the exported body and the heading start tags of the markup
\* imported from it, each in document order.
DomHeadings == querySelectorAll(codec.dom, HeadingTags)
ExportedStyles == querySelectorAll(codec.xml, {"pStyle"})
ImportedHeadings == SelectSeq(codec.html, LAMBDA t : t.t = "open" /\ t.tag \in HeadingTags)

\* C29: heading levels survive the codec: a heading block of level n is
\* exported as a paragraph carrying the style Heading n, and export followed
\* by import yields a heading of the same level n.
C29_HeadingLevelsKept ==
  /\ codec.stage \in {"exported", "reimported"} =>
       [k \in 1..Len(ExportedStyles) |-> ExportedStyles[k].val]
         = [k \in 1..Len(DomHeadings) |-> HeadingStyle(DomHeadings[k].tag)]
  /\ codec.stage = "reimported" =>
       [k \in 1..Len(ImportedHeadings) |-> ImportedHeadings[k].tag]
         = [k \in 1..Len(DomHeadings) |-> DomHeadings[k].tag]

\* The number of page-number spans of a text.
Markers(text) == Len(SelectSeq(text, LAMBDA tok : tok = PageNumberSpan))

\* Every page-number span of the text stands as handlePageNumChange writes
\* it, alone in its <div>, and no end tag of a removed span is left over.
AsInserted(text) ==
  /\ \A k \in 1..Len(text) :
       text[k] = PageNumberSpan =>
         /\ k > 1
         /\ k < Len(text)
         /\ text[k - 1] \in {Open("div", "right"), Open("div", "center")}
         /\ text[k + 1] = Close("div")
  /\ \A k \in 1..Len(text) : text[k] # Close("span")

\* The text without its markers.
RECURSIVE WithoutMarkers(_)
WithoutMarkers(text) ==
  IF text = <<>> THEN <<>>
  ELSE IF Len(text) >= 3 /\ SubSeq(text, 1, 3) \in {HeaderMarker, FooterMarker}
       THEN WithoutMarkers(SubSeq(text, 4, Len(text)))
  ELSE <<Head(text)>> \o WithoutMarkers(Tail(text))

\* Settings s are what the choice of the location should make of settings old.
Chosen(old, location, s) ==
  /\ Markers(s.headerText) = (IF location = "header" THEN 1 ELSE 0)
  /\ Markers(s.footerText) = (IF location = "footer" THEN 1 ELSE 0)
  /\ s.headerText = (IF location = "header" THEN HeaderMarker ELSE <<>>)
                      \o WithoutMarkers(old.headerText)
  /\ s.footerText = (IF location = "footer" THEN FooterMarker ELSE <<>>)
                      \o WithoutMarkers(old.footerText)
  /\ location = "header" => s.hasHeader
  /\ location = "footer" => s.hasFooter
  /\ AsInserted(s.headerText) /\ AsInserted(s.footerText)
  /\ handlePageNumChange(s, location) = s

\* C30: from settings whose page-number markers were inserted by
\* handlePageNumChange, every call leaves the marker exactly once in the text
\* of the chosen location and not at all in the other (in neither after
\* 'none'), leaves nothing of a removed marker behind, leaves the flag of the
\* chosen location true, leaves settings of the same kind (so the same holds
\* after any sequence of calls), and is idempotent.
C30_PageNumberOnce ==
  AsInserted(pageSettings.headerText) /\ AsInserted(pageSettings.footerText) =>
    \A location \in Locations :
      Chosen(pageSettings, location, handlePageNumChange(pageSettings, location))

\* The marker has been moved from the footer to the header of a session whose
\* header holds text of the user.
C30_Witness ==
  /\ pageSettings.headerText = HeaderMarker \o <<Chars("Header content...")>>
  /\ pageSettings.footerText = <<>>
  /\ pageSettings.hasHeader

====
